---- MODULE Spec2Model ----
(***************************************************************************)
(* Model of the tcp_server package: the Server (registry, accept loop,     *)
(* Stop/Wait) of src/unnamed/part_006 and the Client session (reader loop, *)
(* Send, Readln, prompts, close) of src/client.go.                         *)
(*                                                                         *)
(* Every goroutine is a thread with a call stack of frames.  One action is *)
(* one critical section or one blocking operation of the code.  The        *)
(* session lock (Client.Mutex) and the prompt lock (Client.p) are explicit *)
(* because the code holds them across blocking operations; the registry    *)
(* lock (Server.Mutex) and the data-store lock (Client.dbl) only protect   *)
(* non-blocking sections, which are single actions.                        *)
(***************************************************************************)
EXTENDS Integers, Sequences, FiniteSets, TLC

\* ----------------------------------------------------------------- bounds
\* Connections the peers open during a run.
NumConns == 2
\* Connections the peers open during a run of the life cycle and of the
\* prompt protocol.
LifeConns == 1
\* Goroutines of the embedding program that call the API from outside the
\* callbacks.
NumUsers == 1
\* API calls one callback execution makes before it returns.
MaxCbOps == 1
\* len(menu) of the ReadPromptMenu calls of the embedding program.
MenuLen == 2
\* Reader loops Client.Stop relaunches per session.
MaxRelaunch == 1
\* Numbered lines a peer sends on its connection.
MaxLines == 3
\* Length of the byte strings given to the Line Decoder.
MaxDecodeLen == 4

Conns == 1..NumConns
\* identifiers the registry can hand out: one per connection, from 1
Ids == 1..NumConns
\* keys and values of the per-session store
Keys == {"k", "j"}
Vals == {"v", "w"}
NoVal == ""
NilDB == [alloc |-> FALSE, kv |-> [k \in Keys |-> NoVal]]
Users == 1..NumUsers

\* ---------------------------------------------------------------- threads
Main == <<"main", 0>>
Acc == <<"acc", 0>>
AddT(c) == <<"add", c>>
ListenT(c) == <<"listen", c>>
UserT(u) == <<"usr", u>>
\* the k-th reader loop goroutine Client.Stop starts for session c
RelistenT(c, k) == <<"relisten", (c - 1) * MaxRelaunch + k>>
None == <<"none", 0>>
Threads ==
    {Main, Acc} \cup {AddT(c) : c \in Conns} \cup {ListenT(c) : c \in Conns}
        \cup {UserT(u) : u \in Users}
        \cup {RelistenT(c, k) : c \in Conns, k \in 1..MaxRelaunch}

\* ------------------------------------------------------------------ bytes
\* Lines are sequences of byte values.
BS == 8
LF == 10
CR == 13
Abort == <<97, 98, 111, 114, 116>>
AbortedMsg == <<65, 98, 111, 114, 116, 101, 100, 46>>
\* The text a prompt call sends: every one ends with a sentence of the
\* package ("Enter abort to cancel."), for which "?" stands.
PromptText == <<63>>
\* "An empty value isn't supported.\r\n"
EmptyComplaint ==
    <<65, 110, 32, 101, 109, 112, 116, 121, 32, 118, 97, 108, 117, 101, 32, 105,
      115, 110, 39, 116, 32, 115, 117, 112, 112, 111, 114, 116, 101, 100, 46, CR, LF>>
\* "The entry " + answer + " is unsupported.\r\n"
UnsupportedComplaint(answer) ==
    <<84, 104, 101, 32, 101, 110, 116, 114, 121, 32>> \o answer
        \o <<32, 105, 115, 32, 117, 110, 115, 117, 112, 112, 111, 114, 116, 101, 100, 46, CR, LF>>
\* "An empty value isn't accepted.\r\n"
NotAccepted ==
    <<65, 110, 32, 101, 109, 112, 116, 121, 32, 118, 97, 108, 117, 101, 32, 105,
      115, 110, 39, 116, 32, 97, 99, 99, 101, 112, 116, 101, 100, 46, CR, LF>>
\* "Invalid selection.\r\n"
InvalidSelection ==
    <<73, 110, 118, 97, 108, 105, 100, 32, 115, 101, 108, 101, 99, 116, 105, 111, 110, 46, CR, LF>>
\* What a peer types: "\n", "2\n", "9\n", "abort\r\n", "aB\bBORT\n".
RawLines ==
    { <<LF>>, <<50, LF>>, <<57, LF>>, Abort \o <<CR, LF>>,
      <<97, 66, BS, 66, 79, 82, 84, LF>> }

VARIABLES
    started,      \* Server.started
    listener,     \* Server.listener: "nil", "open" or "closed"
    clients,      \* Server.clients: identifier -> connection
    maxid,        \* Server.maxid
    wg,           \* Server.wg counter
    nconn,        \* connections accepted so far
    sock,         \* Client.conn: "none", "open" or "closed" (closed locally)
    peerClosed,   \* the peer closed or reset its end
    id,           \* Client.id (0 until add assigns it)
    connected,    \* Client.connected
    authorized,   \* Client.authorized
    listening,    \* Client.listening
    callbackRunning, \* Client.callbackRunning
    prompt,       \* Client.prompt
    mu,           \* holder of Client.Mutex
    p,            \* holder of Client.p
    pmsgClosed,   \* Client.pmsg has been closed
    db,           \* Client.db
    stk,          \* call stack of every thread
    ret,          \* value returned by the call a thread completed last
    hist          \* history of the callback invocations

vars == <<started, listener, clients, maxid, wg, nconn, sock, peerClosed, id,
          connected, authorized, listening, callbackRunning, prompt, mu, p,
          pmsgClosed, db, stk, ret, hist>>

serverVars == <<started, listener, clients, maxid, wg, nconn>>
flagVars == <<connected, authorized, listening, callbackRunning, prompt>>
connVars == <<sock, peerClosed, id, pmsgClosed>>
lockVars == <<mu, p>>

\* ----------------------------------------------------------------- frames
\* what a broadcast has done so far: its snapshot of the registry, the index
\* of its loop, the sessions it called Send on and the writes that succeeded
NoCast == [snap |-> <<>>, i |-> 0, log |-> <<>>, good |-> 0, gone |-> FALSE]

Frame(pc, c) ==
    [pc |-> pc, c |-> c, b |-> FALSE, str |-> <<>>, n |-> 0,
     must |-> {}, done |-> {}, cast |-> NoCast, key |-> "", val |-> NoVal]

NoRet ==
    [fn |-> "", b |-> FALSE, str |-> <<>>, n |-> 0, err |-> "nil", io |-> FALSE,
     cast |-> NoCast, val |-> NoVal]
Ret(fn, b, str, n, err, io) ==
    [fn |-> fn, b |-> b, str |-> str, n |-> n, err |-> err, io |-> io,
     cast |-> NoCast, val |-> NoVal]

Depth(t) == Len(stk[t])
Top(t) == stk[t][Depth(t)]
At(t, pc) == Depth(t) > 0 /\ Top(t).pc = pc
\* the stack s with its top frame replaced by f
Jump(s, f) == [s EXCEPT ![Len(s)] = f]
Pop(s) == SubSeq(s, 1, Len(s) - 1)
\* t moves to pc in its top frame
Goto(t, pc) == [stk EXCEPT ![t] = Jump(@, [Top(t) EXCEPT !.pc = pc])]
\* t calls f and continues at pc when f returns
Call(t, pc, f) ==
    [stk EXCEPT ![t] = Append(Jump(@, [Top(t) EXCEPT !.pc = pc]), f)]
\* t returns v from its top frame
Return(t, v) ==
    /\ stk' = [stk EXCEPT ![t] = Pop(@)]
    /\ ret' = [ret EXCEPT ![t] = v]

\* the frames of close()
CloseFrames == {"close", "close_relock", "close_remove", "close_clear"}
\* t is inside close() of session c
InClose(t, c) ==
    \E k \in 1..Depth(t) : stk[t][k].c = c /\ stk[t][k].pc \in CloseFrames

\* --------------------------------------------------------- pure functions
RECURSIVE Runes(_)
\* `for _, chr := range str`: the runes of the UTF-8 bytes of str.  A byte
\* below 0x80 is its own rune, a lead byte 0xC2..0xDF with a continuation
\* byte is one rune of 0x80..0x7FF, and a byte that starts no valid sequence
\* is the replacement rune 0xFFFD, one byte wide.  (Longer sequences are
\* runes above 0x7FF; the inputs of the model have none.)
Runes(str) ==
    IF str = <<>> THEN <<>>
    ELSE LET b == Head(str) IN
         IF b < 128 THEN <<b>> \o Runes(Tail(str))
         ELSE IF b >= 194 /\ b <= 223 /\ Len(str) > 1 /\ str[2] >= 128 /\ str[2] <= 191
              THEN <<(b - 192) * 64 + (str[2] - 128)>> \o Runes(Tail(Tail(str)))
         ELSE <<65533>> \o Runes(Tail(str))

RECURSIVE TrimLeft(_, _)
\* strings.TrimLeft: str without its leading bytes that are in cutset
TrimLeft(str, cutset) ==
    IF str # <<>> /\ Head(str) \in cutset THEN TrimLeft(Tail(str), cutset) ELSE str

RECURSIVE TrimRight(_, _)
\* strings.TrimRight: str without its trailing bytes that are in cutset
TrimRight(str, cutset) ==
    IF str # <<>> /\ str[Len(str)] \in cutset
    THEN TrimRight(SubSeq(str, 1, Len(str) - 1), cutset)
    ELSE str

\* variant of Trim that leaves the end of str alone; C22 must not survive it
TrimLeftOnly(str, cutset) == TrimLeft(str, cutset)

\* strings.Trim
Trim(str, cutset) == TrimRight(TrimLeft(str, cutset), cutset)

\* what Send passes to WriteString for message:
\* strings.Trim(message, "\r\n") + "\r\n"
Wire(message) == Trim(message, {CR, LF}) \o <<CR, LF>>

\* variant of stringFormatWithBS that drops the backspaces without deleting
\* anything; C21 must not survive it
stringFormatNoBS(str) == SelectSeq(str, LAMBDA b : b >= 32 /\ b <= 126)

RECURSIVE Decode(_, _)
\* the loop of stringFormatWithBS over the bytes of str, ts accumulated so far
Decode(str, ts) ==
    IF str = <<>> THEN ts
    ELSE LET chr == Head(str) IN
         IF chr = BS
         THEN IF ts # <<>> /\ Len(ts) > 1
              THEN Decode(Tail(str), SubSeq(ts, 1, Len(ts) - 1))
              ELSE IF Len(ts) = 1 THEN Decode(Tail(str), <<>>)
              ELSE Decode(Tail(str), ts)
         ELSE IF chr < 32 \/ chr > 126 THEN Decode(Tail(str), ts)
         ELSE Decode(Tail(str), Append(ts, chr))

stringFormatWithBS(str) == IF str = <<>> THEN <<>> ELSE Decode(Runes(str), <<>>)

\* strings.ToLower on ASCII
ToLower(str) ==
    [k \in 1..Len(str) |->
        IF str[k] >= 65 /\ str[k] <= 90 THEN str[k] + 32 ELSE str[k]]

IsDigit(ch) == ch >= 48 /\ ch <= 57

RECURSIVE DigitsValue(_, _)
DigitsValue(str, acc) ==
    IF str = <<>> THEN acc
    ELSE DigitsValue(Tail(str), acc * 10 + (Head(str) - 48))

\* strconv.Atoi: [ok, val]; an optional sign followed by one or more digits
Atoi(str) ==
    LET signed == str # <<>> /\ Head(str) \in {43, 45}
        digits == IF signed THEN Tail(str) ELSE str
    IN  IF digits = <<>> \/ \E k \in 1..Len(digits) : ~IsDigit(digits[k])
        THEN [ok |-> FALSE, val |-> 0]
        ELSE [ok |-> TRUE,
              val |-> IF signed /\ Head(str) = 45
                      THEN 0 - DigitsValue(digits, 0)
                      ELSE DigitsValue(digits, 0)]

\* what a successful read of the connection can return
Lines == {stringFormatWithBS(raw) : raw \in RawLines}

\* ------------------------------------------------------------------- Init
Init ==
    /\ started = FALSE
    /\ listener = "nil"
    /\ clients = [k \in Ids |-> 0]
    /\ maxid = 1
    /\ wg = 0
    /\ nconn = 0
    /\ sock = [c \in Conns |-> "none"]
    /\ peerClosed = [c \in Conns |-> FALSE]
    /\ id = [c \in Conns |-> 0]
    /\ connected = [c \in Conns |-> FALSE]
    /\ authorized = [c \in Conns |-> FALSE]
    /\ listening = [c \in Conns |-> FALSE]
    /\ callbackRunning = [c \in Conns |-> FALSE]
    /\ prompt = [c \in Conns |-> FALSE]
    /\ mu = [c \in Conns |-> None]
    /\ p = [c \in Conns |-> None]
    /\ pmsgClosed = [c \in Conns |-> FALSE]
    /\ db = [c \in Conns |-> NilDB]
    /\ stk = [t \in Threads |->
                IF t = Main THEN <<Frame("m_init", 0)>>
                ELSE IF t[1] = "usr" THEN <<Frame("idle", 0)>>
                ELSE <<>>]
    /\ ret = [t \in Threads |-> NoRet]
    /\ hist = [admit |-> [c \in Conns |-> "none"],
               closed |-> [c \in Conns |-> 0],
               message |-> [c \in Conns |-> FALSE],
               everAuthorized |-> [c \in Conns |-> FALSE],
               reader |-> [c \in Conns |-> FALSE],
               regs |-> <<>>,
               nread |-> [c \in Conns |-> 0],
               last |-> [c \in Conns |-> 0],
               inOrder |-> [c \in Conns |-> TRUE],
               relaunched |-> [c \in Conns |-> 0],
               waitReturned |-> FALSE,
               late |-> FALSE]

\* the Line Decoder on its own: the bytes it is given are a backspace, a
\* control byte, the least and the greatest printable byte, letters, DEL,
\* and the two bytes of a UTF-8 sequence
DecodeBytes == {BS, 31, 32, 97, 98, 99, 126, 127, 195, 169}
DecodeInputs == UNION {[1..n -> DecodeBytes] : n \in 0..MaxDecodeLen}

InitDecode ==
    /\ started = FALSE
    /\ listener = "nil"
    /\ clients = [k \in Ids |-> 0]
    /\ maxid = 1
    /\ wg = 0
    /\ nconn = 0
    /\ sock = [c \in Conns |-> "none"]
    /\ peerClosed = [c \in Conns |-> FALSE]
    /\ id = [c \in Conns |-> 0]
    /\ connected = [c \in Conns |-> FALSE]
    /\ authorized = [c \in Conns |-> FALSE]
    /\ listening = [c \in Conns |-> FALSE]
    /\ callbackRunning = [c \in Conns |-> FALSE]
    /\ prompt = [c \in Conns |-> FALSE]
    /\ mu = [c \in Conns |-> None]
    /\ p = [c \in Conns |-> None]
    /\ pmsgClosed = [c \in Conns |-> FALSE]
    /\ db = [c \in Conns |-> NilDB]
    /\ \E str \in DecodeInputs :
          stk = [t \in Threads |->
                   IF t = Main THEN <<[Frame("stringFormatWithBS", 0) EXCEPT !.str = str]>>
                   ELSE <<>>]
    /\ ret = [t \in Threads |-> NoRet]
    /\ hist = [admit |-> [c \in Conns |-> "none"],
               closed |-> [c \in Conns |-> 0],
               message |-> [c \in Conns |-> FALSE],
               everAuthorized |-> [c \in Conns |-> FALSE],
               reader |-> [c \in Conns |-> FALSE],
               regs |-> <<>>,
               nread |-> [c \in Conns |-> 0],
               last |-> [c \in Conns |-> 0],
               inOrder |-> [c \in Conns |-> TRUE],
               relaunched |-> [c \in Conns |-> 0],
               waitReturned |-> FALSE,
               late |-> FALSE]

\* stringFormatWithBS is called on the bytes of the frame and returns
Format(t) ==
    /\ At(t, "stringFormatWithBS")
    /\ stk' = Goto(t, "formatted")
    /\ ret' = [ret EXCEPT ![t] =
                 Ret("stringFormatWithBS", FALSE, stringFormatWithBS(Top(t).str), 0, "nil", FALSE)]
    /\ UNCHANGED <<serverVars, flagVars, connVars, lockVars, db, hist>>

NextDecode == \E t \in Threads : Format(t)

SpecDecode == InitDecode /\ [][NextDecode]_vars

\* ------------------------------------------------------- callback history
\* a callback is invoked: remember whether Wait() had already returned
Invoked(h) == [h EXCEPT !.late = @ \/ h.waitReturned]
Inc(n) == IF n < 2 THEN n + 1 ELSE n
CbFrame(pc, c) == [Frame(pc, c) EXCEPT !.n = MaxCbOps]
Registered == {k \in Ids : clients[k] # 0}

\* ----------------------------------------------------------------- Server
\* variant of Start that ignores the started flag; C24 must not survive it
StartTwice(t) ==
    /\ At(t, "m_init")
    /\ started' = TRUE
    /\ listener' = "open"
    /\ wg' = wg + 1
    /\ stk' = [stk EXCEPT ![t] = Jump(@, [Top(t) EXCEPT !.pc = "m_run"]),
                          ![Acc] = <<Frame("accept", 0)>>]
    /\ ret' = [ret EXCEPT ![t] = Ret("Start", TRUE, <<>>, 0, "nil", FALSE)]
    /\ UNCHANGED <<clients, maxid, nconn, flagVars, connVars, lockVars, db, hist>>

\* Server.Start, called by a goroutine that runs the server (the main
\* goroutine); a call that failed can be made again
Start(t) ==
    /\ At(t, "m_init")
    /\ UNCHANGED <<clients, maxid, nconn, flagVars, connVars, lockVars, db, hist>>
    /\ IF started
       THEN /\ ret' = [ret EXCEPT ![t] = Ret("Start", FALSE, <<>>, 0, "already started", FALSE)]
            /\ UNCHANGED <<started, listener, wg, stk>>
       ELSE \/ /\ ret' = [ret EXCEPT ![t] = Ret("Start", FALSE, <<>>, 0, "listen", FALSE)]
               /\ UNCHANGED <<started, listener, wg, stk>>
            \/ /\ started' = TRUE
               /\ listener' = "open"
               /\ wg' = wg + 1
               /\ stk' = [stk EXCEPT ![t] = Jump(@, [Top(t) EXCEPT !.pc = "m_run"]),
                                     ![Acc] = <<Frame("accept", 0)>>]
               /\ ret' = [ret EXCEPT ![t] = Ret("Start", TRUE, <<>>, 0, "nil", FALSE)]

\* Server.accept: one connection accepted, its add goroutine started
accept(t) ==
    /\ At(t, "accept")
    /\ listener = "open"
    /\ nconn < NumConns
    /\ LET c == nconn + 1 IN
       /\ nconn' = c
       /\ sock' = [sock EXCEPT ![c] = "open"]
       /\ wg' = wg + 1
       /\ stk' = [stk EXCEPT ![AddT(c)] = <<Frame("add", c)>>]
    /\ UNCHANGED <<started, listener, clients, maxid, peerClosed, id, pmsgClosed,
                   flagVars, lockVars, db, ret, hist>>

\* Server.accept fails on the closed listener; Server.process returns
process(t) ==
    /\ At(t, "accept")
    /\ listener = "closed"
    /\ wg' = wg - 1
    /\ stk' = [stk EXCEPT ![t] = <<>>]
    /\ UNCHANGED <<started, listener, clients, maxid, nconn, flagVars, connVars,
                   lockVars, db, ret, hist>>

\* variant of NextId that never advances; C11 must not survive it
NextIdStuck(m) == m

\* s.maxid++ on a float64: exact below 2^53, far above every count of
\* registrations a run of the model reaches
NextId(m) == m + 1

\* Server.add: registration, then the admit callback is invoked
add(t) ==
    /\ At(t, "add")
    /\ LET c == Top(t).c IN
       /\ clients' = [clients EXCEPT ![maxid] = c]
       /\ id' = [id EXCEPT ![c] = maxid]
       /\ maxid' = NextId(maxid)
       /\ connected' = [connected EXCEPT ![c] = TRUE]
       /\ stk' = Call(t, "add_decide", CbFrame("cb_admit", c))
       /\ hist' = [Invoked(hist) EXCEPT !.regs = Append(@, c)]
    /\ UNCHANGED <<started, listener, wg, nconn, sock, peerClosed, pmsgClosed,
                   authorized, listening, callbackRunning, prompt, lockVars, db, ret>>

\* variant of Admitted that ignores the callback's answer; C3 must not
\* survive it
AdmittedAlways(t) == TRUE

\* the result of s.onNewClient(c)
Admitted(t) == ret[t].b

\* Server.add after onNewClient returned: close the session or start listen
add_decide(t) ==
    /\ At(t, "add_decide")
    /\ LET c == Top(t).c IN
       IF ~Admitted(t)
       THEN /\ stk' = [stk EXCEPT ![t] = <<Frame("close", c)>>]
            /\ hist' = hist
       ELSE /\ stk' = [stk EXCEPT ![t] = <<>>, ![ListenT(c)] = <<Frame("listen", c)>>]
            /\ hist' = [hist EXCEPT !.reader[c] = TRUE]
    /\ ret' = [ret EXCEPT ![t] = NoRet]
    /\ UNCHANGED <<serverVars, flagVars, connVars, lockVars, db>>

\* the range loop of Server.Stop under the registry lock: the next session
\* to close, or the end of the loop.  Every not yet visited entry that was in
\* the map when the loop began is produced unless it has been deleted; an
\* entry added meanwhile may be produced or not.
StopIter(t, f) ==
    LET todo == Registered \ f.done IN
    \/ \E k \in todo :
          /\ stk' = [stk EXCEPT ![t] =
                        Append(Jump(@, [f EXCEPT !.pc = "stop_loop", !.done = @ \cup {k}]),
                               Frame("close", clients[k]))]
          /\ ret' = [ret EXCEPT ![t] = NoRet]
    \/ /\ f.must \cap todo = {}
       /\ Return(t, Ret("Stop", TRUE, <<>>, 0, "nil", FALSE))

\* Server.Stop: the listener is closed, the loop over the sessions begins
Stop(t) ==
    /\ At(t, "Stop")
    /\ listener # "nil"
    /\ IF listener = "closed"
       THEN /\ Return(t, Ret("Stop", FALSE, <<>>, 0, "listener closed", FALSE))
            /\ listener' = listener
       ELSE /\ listener' = "closed"
            /\ StopIter(t, [Top(t) EXCEPT !.must = Registered])
    /\ UNCHANGED <<started, clients, maxid, wg, nconn, flagVars, connVars, lockVars,
                   db, hist>>

\* Server.Stop after c.close() returned: s.Lock() and the next iteration
stop_loop(t) ==
    /\ At(t, "stop_loop")
    /\ StopIter(t, Top(t))
    /\ UNCHANGED <<serverVars, flagVars, connVars, lockVars, db, hist>>

\* the main goroutine calls Stop() and then Wait()
MainStop(t) ==
    /\ At(t, "m_run")
    /\ stk' = Call(t, "m_wait", Frame("Stop", 0))
    /\ ret' = [ret EXCEPT ![t] = NoRet]
    /\ UNCHANGED <<serverVars, flagVars, connVars, lockVars, db, hist>>

\* Server.Wait returns
Wait(t) ==
    /\ At(t, "m_wait")
    /\ wg = 0
    /\ stk' = Goto(t, "m_done")
    /\ hist' = [hist EXCEPT !.waitReturned = TRUE]
    /\ UNCHANGED <<serverVars, flagVars, connVars, lockVars, db, ret>>

\* ----------------------------------------------------------- Client.close
\* variant of AfterClose that leaves both flags as they were; C1 must not
\* survive it
AfterCloseKept(c) == [connected |-> connected[c], authorized |-> authorized[c]]

\* the flags after the critical section of a close that found the session
\* connected
AfterClose(c) == [connected |-> FALSE, authorized |-> FALSE]

\* variant of alreadyDisconnected that releases the wait counter once more;
\* C10 must not survive it
alreadyDisconnectedRemoves(t) ==
    /\ Return(t, Ret("close", FALSE, <<>>, 0, "already disconnected", FALSE))
    /\ wg' = wg - 1
    /\ UNCHANGED <<started, listener, clients, maxid, nconn, flagVars, connVars, db, hist>>

\* close() finds the session disconnected
alreadyDisconnected(t) ==
    /\ Return(t, Ret("close", FALSE, <<>>, 0, "already disconnected", FALSE))
    /\ UNCHANGED <<serverVars, flagVars, connVars, db, hist>>

\* variant of close that deletes the registry entry in its critical
\* section, before onClosed is invoked; C34 must not survive it
closeRemovesFirst(t) ==
    /\ At(t, "close")
    /\ LET c == Top(t).c IN
       /\ mu[c] = None
       /\ IF connected[c]
          THEN /\ sock' = [sock EXCEPT ![c] = "closed"]
               /\ connected' = [connected EXCEPT ![c] = FALSE]
               /\ pmsgClosed' = [pmsgClosed EXCEPT ![c] = TRUE]
               /\ clients' = [clients EXCEPT ![id[c]] = 0]
               /\ IF authorized[c]
                  THEN /\ authorized' = [authorized EXCEPT ![c] = FALSE]
                       /\ stk' = Call(t, "close_relock", CbFrame("cb_closed", c))
                       /\ hist' = [Invoked(hist) EXCEPT !.closed[c] = Inc(@)]
                  ELSE /\ stk' = Goto(t, "close_remove")
                       /\ UNCHANGED <<authorized, hist>>
               /\ UNCHANGED <<started, listener, maxid, wg, nconn, peerClosed, id,
                              listening, callbackRunning, prompt, db, ret>>
          ELSE alreadyDisconnected(t)
    /\ UNCHANGED lockVars

\* close(): the critical section; onClosed is invoked if authorized
close(t) ==
    /\ At(t, "close")
    /\ LET c == Top(t).c IN
       /\ mu[c] = None
       /\ IF connected[c]
          THEN /\ sock' = [sock EXCEPT ![c] = "closed"]
               /\ connected' = [connected EXCEPT ![c] = AfterClose(c).connected]
               /\ pmsgClosed' = [pmsgClosed EXCEPT ![c] = TRUE]
               /\ IF authorized[c]
                  THEN /\ authorized' = [authorized EXCEPT ![c] = AfterClose(c).authorized]
                       /\ stk' = Call(t, "close_relock", CbFrame("cb_closed", c))
                       /\ hist' = [Invoked(hist) EXCEPT !.closed[c] = Inc(@)]
                  ELSE /\ stk' = Goto(t, "close_remove")
                       /\ UNCHANGED <<authorized, hist>>
               /\ UNCHANGED <<serverVars, peerClosed, id, listening, callbackRunning,
                              prompt, db, ret>>
          ELSE alreadyDisconnected(t)
    /\ UNCHANGED lockVars

\* close() after onClosed returned: c.Lock(), c.Unlock()
close_relock(t) ==
    /\ At(t, "close_relock")
    /\ mu[Top(t).c] = None
    /\ stk' = Goto(t, "close_remove")
    /\ UNCHANGED <<serverVars, flagVars, connVars, lockVars, db, ret, hist>>

\* variant of remove that leaves the entry in the registry; C14 must not
\* survive it
removeKeeps(t) ==
    /\ At(t, "close_remove")
    /\ wg' = wg - 1
    /\ stk' = Goto(t, "close_clear")
    /\ UNCHANGED <<started, listener, clients, maxid, nconn, flagVars, connVars,
                   lockVars, db, ret, hist>>

\* Server.remove: the entry deleted, the wait counter decremented
remove(t) ==
    /\ At(t, "close_remove")
    /\ LET cid == id[Top(t).c] IN
       clients' = IF clients[cid] # 0 THEN [clients EXCEPT ![cid] = 0] ELSE clients
    /\ wg' = wg - 1
    /\ stk' = Goto(t, "close_clear")
    /\ UNCHANGED <<started, listener, maxid, nconn, flagVars, connVars, lockVars,
                   db, ret, hist>>

\* close(): c.DataClear(), then return
close_clear(t) ==
    /\ At(t, "close_clear")
    /\ db' = [db EXCEPT ![Top(t).c] = NilDB]
    /\ Return(t, Ret("close", TRUE, <<>>, 0, "nil", FALSE))
    /\ UNCHANGED <<serverVars, flagVars, connVars, lockVars, hist>>

\* ---------------------------------------------------------- Client.readln
\* readln(): the connected check
readln(t) ==
    /\ At(t, "readln")
    /\ LET c == Top(t).c IN
       /\ mu[c] = None
       /\ IF ~connected[c]
          THEN Return(t, Ret("readln", FALSE, <<>>, 0, "client not connected", FALSE))
          ELSE /\ stk' = Goto(t, "rl_read")
               /\ ret' = ret
    /\ UNCHANGED <<serverVars, flagVars, connVars, lockVars, db, hist>>

\* c.r.ReadString returns a line, which readln decodes
rl_read(t, input) ==
    /\ At(t, "rl_read")
    /\ LET c == Top(t).c IN
       /\ sock[c] = "open" /\ ~peerClosed[c]
       /\ \E raw \in input :
             Return(t, Ret("readln", TRUE, stringFormatWithBS(raw), 0, "nil", FALSE))
    /\ UNCHANGED <<serverVars, flagVars, connVars, lockVars, db, hist>>

\* the n-th numbered line of a peer: the digit n and a line feed
NumberedLine(n) == <<48 + n, LF>>

\* c.r.ReadString returns the next of the numbered lines the peer sends
rl_next(t) ==
    /\ At(t, "rl_read")
    /\ LET c == Top(t).c IN
       /\ sock[c] = "open" /\ ~peerClosed[c]
       /\ hist.nread[c] < MaxLines
       /\ hist' = [hist EXCEPT !.nread[c] = @ + 1]
       /\ Return(t, Ret("readln", TRUE,
                        stringFormatWithBS(NumberedLine(hist.nread[c] + 1)), 0, "nil", FALSE))
    /\ UNCHANGED <<serverVars, flagVars, connVars, lockVars, db>>

\* c.r.ReadString fails: readln calls close
rl_error(t) ==
    /\ At(t, "rl_read")
    /\ LET c == Top(t).c IN
       /\ sock[c] = "closed" \/ peerClosed[c]
       /\ stk' = Call(t, "rl_fail", Frame("close", c))
    /\ UNCHANGED <<serverVars, flagVars, connVars, lockVars, db, ret, hist>>

\* readln returns the read error
rl_fail(t) ==
    /\ At(t, "rl_fail")
    /\ Return(t, Ret("readln", FALSE, <<>>, 0, "io", TRUE))
    /\ UNCHANGED <<serverVars, flagVars, connVars, lockVars, db, hist>>

\* ---------------------------------------------------------- Client.listen
\* listen(): authorized and listening set, the first readln called
listen(t) ==
    /\ At(t, "listen")
    /\ LET c == Top(t).c IN
       /\ mu[c] = None
       /\ authorized' = [authorized EXCEPT ![c] = TRUE]
       /\ listening' = [listening EXCEPT ![c] = TRUE]
       /\ hist' = [hist EXCEPT !.everAuthorized[c] = TRUE]
       /\ stk' = Call(t, "ls_got", Frame("readln", c))
    /\ UNCHANGED <<serverVars, connected, callbackRunning, prompt, connVars,
                   lockVars, db, ret>>

\* the deferred function of listen; the goroutine ends
ListenDefer(t, c) ==
    /\ listening' = [listening EXCEPT ![c] = FALSE]
    /\ callbackRunning' = [callbackRunning EXCEPT ![c] = FALSE]
    /\ stk' = [stk EXCEPT ![t] = <<>>]
    /\ ret' = [ret EXCEPT ![t] = NoRet]

\* listen() after readln returned: return on an error, else read c.prompt
ls_got(t) ==
    /\ At(t, "ls_got")
    /\ LET c == Top(t).c IN
       /\ mu[c] = None
       /\ IF ret[t].err # "nil"
          THEN ListenDefer(t, c)
          ELSE /\ stk' = [stk EXCEPT ![t] = Jump(@,
                            [Top(t) EXCEPT !.pc = IF prompt[c] THEN "ls_send" ELSE "ls_enter",
                                           !.str = ret[t].str])]
               /\ ret' = [ret EXCEPT ![t] = NoRet]
               /\ UNCHANGED <<listening, callbackRunning>>
    /\ UNCHANGED <<serverVars, connected, authorized, prompt, connVars, lockVars,
                   db, hist>>

\* onMessage is invoked with str on session c: when the peer numbers its
\* lines, remember the number and whether the numbers came in order
Delivered(h, c, str) ==
    IF h.nread[c] = 0 THEN h
    ELSE [h EXCEPT !.last[c] = str[1] - 48,
                   !.inOrder[c] = @ /\ str[1] - 48 > h.last[c]]

\* listen(): callbackRunning set, onNewMessage invoked
ls_enter(t) ==
    /\ At(t, "ls_enter")
    /\ LET c == Top(t).c IN
       /\ mu[c] = None
       /\ listening' = [listening EXCEPT ![c] = FALSE]
       /\ callbackRunning' = [callbackRunning EXCEPT ![c] = TRUE]
       /\ stk' = [stk EXCEPT ![t] =
                    Append(Jump(@, [Top(t) EXCEPT !.pc = "ls_leave", !.str = <<>>]),
                           CbFrame("cb_message", c))]
       /\ hist' = [Delivered(Invoked(hist), c, Top(t).str) EXCEPT !.message[c] = TRUE]
    /\ UNCHANGED <<serverVars, connected, authorized, prompt, connVars, lockVars,
                   db, ret>>

\* listen() after onNewMessage returned; the next readln called
ls_leave(t) ==
    /\ At(t, "ls_leave")
    /\ LET c == Top(t).c IN
       /\ mu[c] = None
       /\ listening' = [listening EXCEPT ![c] = TRUE]
       /\ callbackRunning' = [callbackRunning EXCEPT ![c] = FALSE]
       /\ stk' = [stk EXCEPT ![t] =
                    Append(Jump(@, [Top(t) EXCEPT !.pc = "ls_got", !.str = <<>>]),
                           Frame("readln", c))]
       /\ ret' = [ret EXCEPT ![t] = NoRet]
    /\ UNCHANGED <<serverVars, connected, authorized, prompt, connVars, lockVars,
                   db, hist>>

\* c.pmsg <- message on the closed channel panics; listen recovers and
\* calls close
ls_panic(t) ==
    /\ At(t, "ls_send")
    /\ pmsgClosed[Top(t).c]
    /\ stk' = Call(t, "ls_exit", Frame("close", Top(t).c))
    /\ UNCHANGED <<serverVars, flagVars, connVars, lockVars, db, ret, hist>>

\* listen() after the recovered panic: the deferred function ends
ls_exit(t) ==
    /\ At(t, "ls_exit")
    /\ mu[Top(t).c] = None
    /\ ListenDefer(t, Top(t).c)
    /\ UNCHANGED <<serverVars, connected, authorized, prompt, connVars, lockVars,
                   db, hist>>

\* ------------------------------------------------------------ Client.Stop
\* runtime.Goexit in goroutine t: what is left of its stack are the deferred
\* functions still to run.  A reader loop goroutine has the deferred
\* function of listen; the other callers of Client.Stop have none.
Goexit(t) ==
    IF stk[t][1].pc = "ls_leave" THEN <<[stk[t][1] EXCEPT !.pc = "ls_exit"]>> ELSE <<>>

\* Client.Stop: returns when no message callback is running; else starts a
\* new reader loop goroutine (the deferred `go c.listen()`) and ends the
\* calling goroutine
ClientStop(t) ==
    /\ At(t, "ClientStop")
    /\ LET c == Top(t).c IN
       /\ mu[c] = None
       /\ IF ~callbackRunning[c]
          THEN /\ Return(t, Ret("ClientStop", FALSE, <<>>, 0, "nil", FALSE))
               /\ hist' = hist
          ELSE /\ hist.relaunched[c] < MaxRelaunch
               /\ stk' = [stk EXCEPT
                            ![RelistenT(c, hist.relaunched[c] + 1)] = <<Frame("listen", c)>>,
                            ![t] = Goexit(t)]
               /\ ret' = [ret EXCEPT ![t] = NoRet]
               /\ hist' = [hist EXCEPT !.relaunched[c] = @ + 1]
    /\ UNCHANGED <<serverVars, flagVars, connVars, lockVars, db>>

\* ------------------------------------------------------------ Client.Send
\* the result Send returns after its write; failed tells whether
\* WriteString or Flush returned an error
SendResult(failed) == TRUE

\* the frame of a call of Send(message) on session c
SendFrame(c, message) == [Frame("Send", c) EXCEPT !.str = message]

\* Send(): the message that is empty once trimmed is refused; else c.Lock(),
\* WriteString and Flush
Send(t) ==
    /\ At(t, "Send")
    /\ LET c == Top(t).c IN
       IF Wire(Top(t).str) = <<CR, LF>>
       THEN /\ Return(t, Ret("Send", FALSE, <<>>, 0, "nil", FALSE))
            /\ mu' = mu
       ELSE /\ mu[c] = None
            /\ mu' = [mu EXCEPT ![c] = t]
            /\ \E failed \in BOOLEAN :
                  /\ sock[c] = "closed" => failed
                  /\ (sock[c] = "open" /\ ~peerClosed[c]) => ~failed
                  /\ stk' = [stk EXCEPT ![t] =
                               Jump(@, [Top(t) EXCEPT !.pc = "send_unlock", !.b = failed])]
            /\ ret' = ret
    /\ UNCHANGED <<serverVars, flagVars, connVars, p, db, hist>>

\* Send(): c.Unlock(), then close on an error
send_unlock(t) ==
    /\ At(t, "send_unlock")
    /\ LET c == Top(t).c IN
       /\ mu' = [mu EXCEPT ![c] = None]
       /\ IF Top(t).b
          THEN /\ stk' = Call(t, "send_ret", Frame("close", c))
               /\ ret' = ret
          ELSE Return(t, Ret("Send", SendResult(FALSE), Wire(Top(t).str), 0, "nil", FALSE))
    /\ UNCHANGED <<serverVars, flagVars, connVars, p, db, hist>>

\* Send() returns after close
send_ret(t) ==
    /\ At(t, "send_ret")
    /\ Return(t, Ret("Send", SendResult(TRUE), Wire(Top(t).str), 0, "nil", TRUE))
    /\ UNCHANGED <<serverVars, flagVars, connVars, lockVars, db, hist>>

\* ------------------------------------------------------ Client.readprompt
\* the deferred functions of readprompt (prompt cleared, c.p released) and
\* its return
RpExit(t, c, str, aborted) ==
    /\ mu[c] = None
    /\ prompt' = [prompt EXCEPT ![c] = FALSE]
    /\ p' = [p EXCEPT ![c] = None]
    /\ Return(t, Ret("readprompt", aborted, str, 0, "nil", FALSE))
    /\ UNCHANGED <<serverVars, connected, authorized, listening, callbackRunning,
                   connVars, mu, db, hist>>

\* variant of PromptLockFree that never waits; C19 must not survive it
PromptLockIgnored(c) == TRUE

\* c.p.Lock() can proceed
PromptLockFree(c) == p[c] = None

\* the frame of a call of readprompt(text) on session c; every caller
\* passes a text that ends with a sentence of the package, so none is empty
PromptFrame(c, text) == [Frame("readprompt", c) EXCEPT !.str = text]

\* readprompt(): c.p taken, prompt set, listening read, the prompt text sent
readprompt(t) ==
    /\ At(t, "readprompt")
    /\ LET c == Top(t).c IN
       /\ PromptLockFree(c)
       /\ mu[c] = None
       /\ p' = [p EXCEPT ![c] = t]
       /\ prompt' = [prompt EXCEPT ![c] = TRUE]
       /\ stk' = [stk EXCEPT ![t] =
                    Append(Jump(@, [Top(t) EXCEPT !.pc = "rp_sent", !.b = listening[c]]),
                           SendFrame(c, Top(t).str))]
    /\ ret' = [ret EXCEPT ![t] = NoRet]
    /\ UNCHANGED <<serverVars, connected, authorized, listening, callbackRunning,
                   connVars, mu, db, hist>>

\* variant of rp_sent that reads the connection itself when listening was
\* set and waits on the hand-off channel when it was not; C33 as amended
\* must not survive it
rp_sentSwapped(t) ==
    /\ At(t, "rp_sent")
    /\ LET c == Top(t).c
           sent == ret[t].b
           wasListening == Top(t).b
       IN  IF ~sent
           THEN RpExit(t, c, <<>>, TRUE)
           ELSE /\ stk' = IF wasListening
                          THEN Call(t, "rp_read", Frame("readln", c))
                          ELSE Goto(t, "rp_recv")
                /\ ret' = [ret EXCEPT ![t] = NoRet]
                /\ UNCHANGED <<serverVars, flagVars, connVars, lockVars, db, hist>>

\* readprompt() after Send returned: give up, read the connection, or wait
\* on the hand-off channel
rp_sent(t) ==
    /\ At(t, "rp_sent")
    /\ LET c == Top(t).c
           sent == ret[t].b
           wasListening == Top(t).b
       IN  IF ~sent
           THEN RpExit(t, c, <<>>, TRUE)
           ELSE /\ stk' = IF ~wasListening
                          THEN Call(t, "rp_read", Frame("readln", c))
                          ELSE Goto(t, "rp_recv")
                /\ ret' = [ret EXCEPT ![t] = NoRet]
                /\ UNCHANGED <<serverVars, flagVars, connVars, lockVars, db, hist>>

\* readprompt() after its own readln returned
rp_read(t) ==
    /\ At(t, "rp_read")
    /\ RpExit(t, Top(t).c, ret[t].str, ret[t].err # "nil")

\* readprompt(): the receive from c.pmsg finds the channel closed
rp_closed(t) ==
    /\ At(t, "rp_recv")
    /\ pmsgClosed[Top(t).c]
    /\ RpExit(t, Top(t).c, <<>>, TRUE)

\* readprompt() after the receive from c.pmsg delivered a line
rp_got(t) ==
    /\ At(t, "rp_got")
    /\ RpExit(t, Top(t).c, Top(t).str, FALSE)

\* the rendezvous on c.pmsg: listen (t) sends its line to readprompt (r)
\* and goes on to its next readln
HandOff(t, r) ==
    /\ At(t, "ls_send")
    /\ At(r, "rp_recv")
    /\ Top(t).c = Top(r).c
    /\ ~pmsgClosed[Top(t).c]
    /\ stk' = [stk EXCEPT
                 ![t] = Append(Jump(@, [Top(t) EXCEPT !.pc = "ls_got", !.str = <<>>]),
                               Frame("readln", Top(t).c)),
                 ![r] = Jump(@, [Top(r) EXCEPT !.pc = "rp_got", !.str = Top(t).str])]
    /\ UNCHANGED <<serverVars, flagVars, connVars, lockVars, db, ret, hist>>

\* -------------------------------------------------------------- broadcast
RECURSIVE Ascending(_)
\* sort.Float64s: the identifiers of S in ascending order
Ascending(S) ==
    IF S = {} THEN <<>>
    ELSE LET m == CHOOSE x \in S : \A y \in S : x <= y
         IN  <<m>> \o Ascending(S \ {m})

\* variant of clientsSorted in descending order; C15 must not survive it
clientsReversed ==
    LET ids == Ascending(Registered)
    IN  [k \in 1..Len(ids) |-> clients[ids[Len(ids) + 1 - k]]]

\* Server.clientsSorted: the sessions of the registry by ascending identifier
clientsSorted ==
    LET ids == Ascending(Registered)
    IN  [k \in 1..Len(ids) |-> clients[ids[k]]]

\* every connection accepted so far is registered, disconnected, and its
\* close has run to its end
AllGone ==
    /\ nconn > 0
    /\ \A c \in 1..nconn :
          /\ id[c] # 0
          /\ ~connected[c]
          /\ \A t \in Threads : ~InClose(t, c)

\* the (count, error) a broadcast of msg returns, with what it has done
CastRet(fn, filter, msg, count, err, cast) ==
    [Ret(fn, filter, msg, count, err, FALSE) EXCEPT !.cast = cast]

\* the head of a broadcast: the empty message refused, the registry
\* snapshot taken, the empty snapshot refused
castBegin(t, fn, looppc) ==
    LET f == Top(t)
        snap == clientsSorted
        cast == [NoCast EXCEPT !.snap = snap, !.i = 1, !.gone = AllGone]
    IN  /\ IF f.str = <<>>
           THEN Return(t, CastRet(fn, f.b, f.str, 0, "empty string invalid", NoCast))
           ELSE IF Len(snap) = 0
           THEN Return(t, CastRet(fn, f.b, f.str, 0, "no clients available", cast))
           ELSE /\ stk' = [stk EXCEPT ![t] =
                             Jump(@, [f EXCEPT !.pc = looppc, !.cast = cast])]
                /\ ret' = [ret EXCEPT ![t] = NoRet]
        /\ UNCHANGED <<serverVars, flagVars, connVars, lockVars, db, hist>>

\* one round of the loop of a broadcast: the end of the snapshot, a session
\* skipped, or Send called on the session
castLoop(t, fn, filtered, sentpc) ==
    LET f == Top(t)
        k == f.cast
    IN  /\ IF k.i > Len(k.snap)
           THEN Return(t, CastRet(fn, f.b, f.str, f.n,
                                  IF f.n = 0 THEN "sent to no clients" ELSE "nil", k))
           ELSE LET sc == k.snap[k.i] IN
                /\ filtered => mu[sc] = None
                /\ ret' = [ret EXCEPT ![t] = NoRet]
                /\ IF (filtered /\ authorized[sc] # f.b) \/ (f.c # 0 /\ sc = f.c)
                   THEN stk' = [stk EXCEPT ![t] = Jump(@, [f EXCEPT !.cast.i = @ + 1])]
                   ELSE stk' = [stk EXCEPT ![t] =
                                  Append(Jump(@, [f EXCEPT !.pc = sentpc,
                                                           !.cast.log = Append(@, sc)]),
                                         SendFrame(sc, f.str))]
        /\ UNCHANGED <<serverVars, flagVars, connVars, lockVars, db, hist>>

\* a broadcast after Send returned: count the success, next session
castSent(t, looppc) ==
    LET f == Top(t) IN
    /\ stk' = [stk EXCEPT ![t] =
                 Jump(@, [f EXCEPT !.pc = looppc,
                                   !.n = IF ret[t].b THEN @ + 1 ELSE @,
                                   !.cast.i = @ + 1,
                                   !.cast.good = IF ret[t].io THEN @ ELSE @ + 1])]
    /\ ret' = [ret EXCEPT ![t] = NoRet]
    /\ UNCHANGED <<serverVars, flagVars, connVars, lockVars, db, hist>>

\* Server.SendAll
SendAll(t) == At(t, "SendAll") /\ castBegin(t, "SendAll", "sa_loop")
sa_loop(t) == At(t, "sa_loop") /\ castLoop(t, "SendAll", FALSE, "sa_sent")
sa_sent(t) == At(t, "sa_sent") /\ castSent(t, "sa_loop")

\* Server.sendAuthorized; the frame's b is its authorized parameter
sendAuthorized(t) ==
    At(t, "sendAuthorized") /\ castBegin(t, "sendAuthorized", "sz_loop")
sz_loop(t) == At(t, "sz_loop") /\ castLoop(t, "sendAuthorized", TRUE, "sz_sent")
sz_sent(t) == At(t, "sz_sent") /\ castSent(t, "sz_loop")

\* ------------------------------------------- ReadPrompt, Confirm and Menu
\* what a prompt loop does with the (answer, aborted) readprompt returned:
\* act is "return", "ack" (send "Aborted." and return) or "again" (prompt
\* again with head as the prompthead)

\* variant of PromptStep that compares the answer as typed; C32 must not
\* survive it
PromptStepCased(answer, aborted) ==
    IF aborted THEN [act |-> "return", res |-> 0, aborted |-> TRUE, head |-> <<>>]
    ELSE IF answer = Abort THEN [act |-> "ack", res |-> 0, aborted |-> TRUE, head |-> <<>>]
    ELSE [act |-> "return", res |-> 0, aborted |-> FALSE, head |-> <<>>]

\* variant of ConfirmStep that takes every answer but "abort" for a yes;
\* C31 must not survive it
ConfirmStepEager(answer, aborted) ==
    IF aborted THEN [act |-> "return", res |-> 0, aborted |-> TRUE, head |-> <<>>]
    ELSE IF ToLower(answer) = Abort
         THEN [act |-> "ack", res |-> 0, aborted |-> TRUE, head |-> <<>>]
    ELSE [act |-> "return", res |-> 1, aborted |-> FALSE, head |-> <<>>]

\* ReadPrompt after readprompt
PromptStep(answer, aborted) ==
    IF aborted THEN [act |-> "return", res |-> 0, aborted |-> TRUE, head |-> <<>>]
    ELSE IF ToLower(answer) = Abort THEN [act |-> "ack", res |-> 0, aborted |-> TRUE, head |-> <<>>]
    ELSE [act |-> "return", res |-> 0, aborted |-> FALSE, head |-> <<>>]

\* the loop body of ReadPromptConfirm after readprompt; res 1 is true
ConfirmStep(answer, aborted) ==
    LET low == ToLower(answer) IN
    IF aborted THEN [act |-> "return", res |-> 0, aborted |-> TRUE, head |-> <<>>]
    ELSE IF low = <<>>
         THEN [act |-> "again", res |-> 0, aborted |-> FALSE, head |-> EmptyComplaint]
    ELSE IF low = Abort THEN [act |-> "ack", res |-> 0, aborted |-> TRUE, head |-> <<>>]
    ELSE IF low \in {<<121>>, <<121, 101, 115>>}
         THEN [act |-> "return", res |-> 1, aborted |-> FALSE, head |-> <<>>]
    ELSE IF low \in {<<110>>, <<110, 111>>}
         THEN [act |-> "return", res |-> 0, aborted |-> FALSE, head |-> <<>>]
    ELSE [act |-> "again", res |-> 0, aborted |-> FALSE,
          head |-> UnsupportedComplaint(answer)]

\* the loop body of ReadPromptMenu after readprompt; len is len(menu)
MenuStep(answer, aborted, len) ==
    IF ~aborted THEN [act |-> "return", res |-> -1, aborted |-> aborted, head |-> <<>>]
    ELSE IF ToLower(answer) = Abort
         THEN [act |-> "ack", res |-> -1, aborted |-> aborted, head |-> <<>>]
    ELSE IF answer = <<>>
         THEN [act |-> "again", res |-> -1, aborted |-> aborted, head |-> NotAccepted]
    ELSE LET int == Atoi(answer) IN
         IF ~int.ok \/ int.val < 1 \/ int.val > len
         THEN [act |-> "again", res |-> -1, aborted |-> aborted, head |-> InvalidSelection]
         ELSE [act |-> "return", res |-> int.val - 1, aborted |-> FALSE, head |-> <<>>]

\* one round of a prompt loop: return, acknowledge the abort, or prompt
\* again; io of the returned record tells that readprompt had failed
PromptRound(t, fn, ackpc, step) ==
    LET c == Top(t).c IN
    /\ CASE step.act = "return" ->
              Return(t, Ret(fn, step.aborted, ret[t].str, step.res, "nil", ret[t].b))
         [] step.act = "ack" ->
              /\ stk' = [stk EXCEPT ![t] =
                           Append(Jump(@, [Top(t) EXCEPT !.pc = ackpc, !.str = ret[t].str,
                                                         !.b = step.aborted]),
                                  SendFrame(c, AbortedMsg))]
              /\ ret' = [ret EXCEPT ![t] = NoRet]
         [] step.act = "again" ->
              /\ stk' = [stk EXCEPT ![t] = Append(@, PromptFrame(c, step.head \o PromptText))]
              /\ ret' = [ret EXCEPT ![t] = NoRet]
    /\ UNCHANGED <<serverVars, flagVars, connVars, lockVars, db, hist>>

\* a prompt call returns after its "Aborted." was sent
PromptAck(t, fn, res) ==
    /\ Return(t, Ret(fn, Top(t).b, Top(t).str, res, "nil", FALSE))
    /\ UNCHANGED <<serverVars, flagVars, connVars, lockVars, db, hist>>

ReadPrompt(t) ==
    /\ At(t, "pr_ret")
    /\ PromptRound(t, "ReadPrompt", "pr_ack", PromptStep(ret[t].str, ret[t].b))

pr_ack(t) ==
    /\ At(t, "pr_ack")
    /\ PromptAck(t, "ReadPrompt", 0)

ReadPromptConfirm(t) ==
    /\ At(t, "cf_ret")
    /\ PromptRound(t, "ReadPromptConfirm", "cf_ack", ConfirmStep(ret[t].str, ret[t].b))

cf_ack(t) ==
    /\ At(t, "cf_ack")
    /\ PromptAck(t, "ReadPromptConfirm", 0)

\* ReadPromptMenu(): the empty menu is refused, else the first prompt
mn_begin(t) ==
    /\ At(t, "ReadPromptMenu")
    /\ IF Top(t).n = 0
       THEN Return(t, Ret("ReadPromptMenu", TRUE, <<>>, -1, "empty menu", FALSE))
       ELSE /\ stk' = Call(t, "mn_ret", PromptFrame(Top(t).c, PromptText))
            /\ ret' = ret
    /\ UNCHANGED <<serverVars, flagVars, connVars, lockVars, db, hist>>

ReadPromptMenu(t) ==
    /\ At(t, "mn_ret")
    /\ PromptRound(t, "ReadPromptMenu", "mn_ack", MenuStep(ret[t].str, ret[t].b, Top(t).n))

mn_ack(t) ==
    /\ At(t, "mn_ack")
    /\ PromptAck(t, "ReadPromptMenu", -1)

\* ----------------------------------------------------- embedding program
\* the API calls the embedding program makes on a session
ClientOps == {"Close", "Send", "Readln", "ReadPrompt", "ReadPromptConfirm",
              "ReadPromptMenu"}

\* the frames of a call of op on session c
OpFrames(op, c, len) ==
    CASE op = "Close" -> <<Frame("close", c)>>
      [] op = "Send" -> <<SendFrame(c, <<120>>)>>
      [] op = "Readln" -> <<Frame("readln", c)>>
      [] op = "ReadPrompt" -> <<Frame("pr_ret", c), PromptFrame(c, PromptText)>>
      [] op = "ReadPromptConfirm" -> <<Frame("cf_ret", c), PromptFrame(c, PromptText)>>
      [] op = "ReadPromptMenu" -> <<[Frame("ReadPromptMenu", c) EXCEPT !.n = len]>>
      [] op = "Stop" -> <<Frame("Stop", 0)>>
      [] op = "ClientStop" -> <<Frame("ClientStop", c)>>

InCallback(t) == At(t, "cb_admit") \/ At(t, "cb_message") \/ At(t, "cb_closed")

\* a callback calls the API on its session, or stops the server
CbOp(t, ops) ==
    /\ InCallback(t)
    /\ Top(t).n > 0
    /\ \E op \in ops[Top(t).pc], len \in {0, MenuLen} :
          /\ op # "ReadPromptMenu" => len = MenuLen
          /\ op = "Stop" => listener # "nil"
          /\ stk' = [stk EXCEPT ![t] =
                       Jump(@, [Top(t) EXCEPT !.n = @ - 1]) \o OpFrames(op, Top(t).c, len)]
    /\ ret' = [ret EXCEPT ![t] = NoRet]
    /\ UNCHANGED <<serverVars, flagVars, connVars, lockVars, db, hist>>

\* a callback returns; onNewClient returns its decision
CbReturn(t) ==
    /\ InCallback(t)
    /\ IF At(t, "cb_admit")
       THEN \E ok \in BOOLEAN :
               /\ Return(t, Ret("onNewClient", ok, <<>>, 0, "nil", FALSE))
               /\ hist' = [hist EXCEPT !.admit[Top(t).c] = IF ok THEN "yes" ELSE "no"]
       ELSE /\ Return(t, NoRet)
            /\ hist' = hist
    /\ UNCHANGED <<serverVars, flagVars, connVars, lockVars, db>>

\* a goroutine of the embedding program makes its API call on a session it
\* holds a handle of, or stops the server; it ends when the call returns
UserOp(t, ops) ==
    /\ At(t, "idle")
    /\ \E op \in ops, c \in Conns, len \in {0, MenuLen} :
          /\ id[c] # 0
          /\ op # "ReadPromptMenu" => len = MenuLen
          /\ op = "Stop" => listener # "nil" /\ c = 1
          /\ stk' = [stk EXCEPT ![t] =
                       <<[Frame("returned", c) EXCEPT !.b = ~connected[c]]>>
                           \o OpFrames(op, c, len)]
    /\ ret' = [ret EXCEPT ![t] = NoRet]
    /\ UNCHANGED <<serverVars, flagVars, connVars, lockVars, db, hist>>

\* the goroutine that made an API call ends
UserEnd(t) ==
    /\ At(t, "returned")
    /\ stk' = [stk EXCEPT ![t] = <<>>]
    /\ ret' = [ret EXCEPT ![t] = NoRet]
    /\ UNCHANGED <<serverVars, flagVars, connVars, lockVars, db, hist>>

\* the broadcasts of the API and the messages the embedding program
\* broadcasts: "" and "x"
CastOps == {"SendAll", "SendAllAuthorized", "SendAllUnauthorized"}
CastMsgs == {<<>>, <<120>>}

\* the frame of a broadcast op of message msg that excludes excl (0: nil)
CastFrame(op, excl, msg) ==
    [Frame(IF op = "SendAll" THEN "SendAll" ELSE "sendAuthorized", excl)
        EXCEPT !.b = (op = "SendAllAuthorized"), !.str = msg]

\* a goroutine of the embedding program broadcasts
UserCast(t) ==
    /\ At(t, "idle")
    /\ \E op \in CastOps, excl \in {0} \cup {c \in Conns : id[c] # 0}, msg \in CastMsgs :
          stk' = [stk EXCEPT ![t] = <<Frame("returned", excl), CastFrame(op, excl, msg)>>]
    /\ ret' = [ret EXCEPT ![t] = NoRet]
    /\ UNCHANGED <<serverVars, flagVars, connVars, lockVars, db, hist>>

\* another goroutine of the embedding program sets out to start the server
UserStart(t) ==
    /\ At(t, "idle")
    /\ stk' = [stk EXCEPT ![t] = <<Frame("m_init", 0)>>]
    /\ ret' = [ret EXCEPT ![t] = NoRet]
    /\ UNCHANGED <<serverVars, flagVars, connVars, lockVars, db, hist>>

\* the messages the embedding program sends: "", "\r\n", "x", "x\r\r\n\n",
\* "\n\rx\r", "a\r\nb", " " and "  hello  \r\n"
WireMsgs ==
    { <<>>, <<CR, LF>>, <<120>>, <<120, CR, CR, LF, LF>>, <<LF, CR, 120, CR>>,
      <<97, CR, LF, 98>>, <<32>>,
      <<32, 32, 104, 101, 108, 108, 111, 32, 32, CR, LF>> }

\* a goroutine of the embedding program calls Send(message) on a session
UserSend(t) ==
    /\ At(t, "idle")
    /\ \E c \in Conns, message \in WireMsgs :
          /\ id[c] # 0
          /\ stk' = [stk EXCEPT ![t] =
                       <<[Frame("returned", c) EXCEPT !.b = ~connected[c], !.str = message],
                         SendFrame(c, message)>>]
    /\ ret' = [ret EXCEPT ![t] = NoRet]
    /\ UNCHANGED <<serverVars, flagVars, connVars, lockVars, db, hist>>

\* --------------------------------------------------------- the data store
\* the calls of the data store and the frame of a call of op on session c
DataOps == {"DataSet", "DataGet", "DataClear"}
DataFrame(op, c, k, v) == [Frame(op, c) EXCEPT !.key = k, !.val = v]
\* what a call of the data store returns: val is the interface{} value of
\* DataGet, NoVal for nil
DataRet(fn, v) == [Ret(fn, v # NoVal, <<>>, 0, "nil", FALSE) EXCEPT !.val = v]

\* Client.DataSet: the map is made if it is nil, the value stored
DataSet(t) ==
    /\ At(t, "DataSet")
    /\ LET f == Top(t) IN
       db' = [db EXCEPT ![f.c] = [alloc |-> TRUE, kv |-> [@.kv EXCEPT ![f.key] = f.val]]]
    /\ Return(t, DataRet("DataSet", NoVal))
    /\ UNCHANGED <<serverVars, flagVars, connVars, lockVars, hist>>

\* Client.DataGet: nil when the key does not exist (in the nil map no key
\* does), else the value
DataGet(t) ==
    /\ At(t, "DataGet")
    /\ LET f == Top(t)
           exists == db[f.c].alloc /\ db[f.c].kv[f.key] # NoVal
       IN  Return(t, DataRet("DataGet", IF ~exists THEN NoVal ELSE db[f.c].kv[f.key]))
    /\ UNCHANGED <<serverVars, flagVars, connVars, lockVars, db, hist>>

\* variant of DataClear that leaves the map as it is; C28 must not survive
\* it
DataClearKeeps(t) ==
    /\ At(t, "DataClear")
    /\ Return(t, DataRet("DataClear", NoVal))
    /\ UNCHANGED <<serverVars, flagVars, connVars, lockVars, db, hist>>

\* Client.DataClear: c.db = nil
DataClear(t) ==
    /\ At(t, "DataClear")
    /\ db' = [db EXCEPT ![Top(t).c] = NilDB]
    /\ Return(t, DataRet("DataClear", NoVal))
    /\ UNCHANGED <<serverVars, flagVars, connVars, lockVars, hist>>

\* a goroutine of the embedding program calls the data store of a session
UserData(t, ops, keys, vals) ==
    /\ At(t, "idle")
    /\ \E op \in ops, c \in Conns, k \in keys, v \in vals :
          /\ id[c] # 0
          /\ op # "DataSet" => v = CHOOSE w \in vals : TRUE
          /\ op = "DataClear" => k = CHOOSE j \in keys : TRUE
          /\ stk' = [stk EXCEPT ![t] =
                       <<[Frame("returned", c) EXCEPT !.b = ~connected[c]],
                         DataFrame(op, c, k, IF op = "DataSet" THEN v ELSE NoVal)>>]
    /\ ret' = [ret EXCEPT ![t] = NoRet]
    /\ UNCHANGED <<serverVars, flagVars, connVars, lockVars, db, hist>>

\* the goroutine that made an API call makes another one
UserAgain(t) ==
    /\ At(t, "returned")
    /\ stk' = [stk EXCEPT ![t] = <<Frame("idle", 0)>>]
    /\ UNCHANGED <<serverVars, flagVars, connVars, lockVars, db, ret, hist>>

\* the peer closes or resets its end of the connection
PeerClose(c) ==
    /\ sock[c] = "open"
    /\ ~peerClosed[c]
    /\ peerClosed' = [peerClosed EXCEPT ![c] = TRUE]
    /\ UNCHANGED <<serverVars, flagVars, sock, id, pmsgClosed, lockVars, db, stk,
                   ret, hist>>

\* ------------------------------------------------------------------- Next
ServerStep(t) ==
    \/ Start(t)
    \/ accept(t)
    \/ process(t)
    \/ add(t)
    \/ add_decide(t)
    \/ Stop(t)
    \/ stop_loop(t)

CloseStep(t) ==
    \/ close(t)
    \/ close_relock(t)
    \/ remove(t)
    \/ close_clear(t)

ReaderStep(t, input) ==
    \/ readln(t)
    \/ rl_read(t, input)
    \/ rl_error(t)
    \/ rl_fail(t)
    \/ listen(t)
    \/ ls_got(t)
    \/ ls_enter(t)
    \/ ls_leave(t)

SendStep(t) ==
    \/ Send(t)
    \/ send_unlock(t)
    \/ send_ret(t)

HandOffStep(t) ==
    \/ readprompt(t)
    \/ rp_sent(t)
    \/ rp_read(t)
    \/ rp_closed(t)
    \/ rp_got(t)
    \/ ls_panic(t)
    \/ ls_exit(t)

\* mn_ack is no step of the program: ReadPromptMenu sends "Aborted." only
\* for the answer "abort" of an aborted readprompt, whose answer is empty
PromptCallStep(t) ==
    \/ ReadPrompt(t)
    \/ pr_ack(t)
    \/ ReadPromptConfirm(t)
    \/ cf_ack(t)
    \/ mn_begin(t)
    \/ ReadPromptMenu(t)

\* the server's life cycle: the embedding program closes sessions, sends,
\* stops the server and waits
LifeOps == {"Close", "Send"}
LifeCbOps ==
    [cb_admit |-> {"Close", "Send"}, cb_message |-> {"Close", "Send"},
     cb_closed |-> {"Close", "Stop"}]

Next ==
    \/ \E t \in Threads :
          \/ ServerStep(t) /\ nconn' <= LifeConns
          \/ MainStop(t)
          \/ Wait(t)
          \/ CloseStep(t)
          \/ ReaderStep(t, {<<50, LF>>})
          \/ SendStep(t)
          \/ CbOp(t, LifeCbOps)
          \/ CbReturn(t)
          \/ UserOp(t, LifeOps)
          \/ UserEnd(t)
          \/ UserData(t, {"DataSet"}, {"k"}, {"v"})
          \/ DataSet(t)
    \/ \E c \in Conns : PeerClose(c)

Spec == Init /\ [][Next]_vars

\* the prompt protocol: the embedding program prompts from its callbacks and
\* from its own goroutines while the peer types or leaves
PromptOps ==
    {"ReadPrompt", "ReadPromptConfirm", "ReadPromptMenu", "Readln", "Send", "Close"}
PromptCbOps ==
    [cb_admit |-> {"ReadPrompt"}, cb_message |-> {"ReadPrompt", "ReadPromptMenu"},
     cb_closed |-> {}]

\* the steps goroutine t takes on its own
PromptThreadStep(t) ==
    \/ Start(t)
    \/ accept(t) /\ nconn' <= LifeConns
    \/ add(t)
    \/ add_decide(t)
    \/ CloseStep(t)
    \/ ReaderStep(t, RawLines)
    \/ SendStep(t)
    \/ HandOffStep(t)
    \/ PromptCallStep(t)
    \/ CbOp(t, PromptCbOps)
    \/ CbReturn(t)
    \/ UserOp(t, PromptOps)
    \/ UserEnd(t)

NextPrompt ==
    \/ \E t \in Threads : PromptThreadStep(t)
    \/ \E t, r \in Threads : HandOff(t, r)
    \/ \E c \in Conns : PeerClose(c)

SpecPrompt == Init /\ [][NextPrompt]_vars

\* the prompt protocol under the Go scheduler: a goroutine that can take a
\* step takes it eventually, and so does a rendezvous both sides wait for;
\* the peer is not obliged to do anything
SpecPromptFair ==
    /\ SpecPrompt
    /\ \A t \in Threads : WF_vars(PromptThreadStep(t))
    /\ WF_vars(\E t, r \in Threads : HandOff(t, r))

\* callback abandonment: the peer sends numbered lines; the message
\* callback, or another goroutine of the embedding program, calls Client.Stop
StopOps == {"ClientStop"}
StopCbOps == [cb_admit |-> {}, cb_message |-> {"ClientStop"}, cb_closed |-> {}]

NextStop ==
    \/ \E t \in Threads :
          \/ Start(t)
          \/ accept(t) /\ nconn' <= LifeConns
          \/ add(t)
          \/ add_decide(t)
          \/ CloseStep(t)
          \/ readln(t)
          \/ rl_next(t)
          \/ rl_error(t)
          \/ rl_fail(t)
          \/ listen(t)
          \/ ls_got(t)
          \/ ls_enter(t)
          \/ ls_leave(t)
          \/ ls_exit(t)
          \/ ClientStop(t)
          \/ CbOp(t, StopCbOps)
          \/ CbReturn(t)
          \/ UserOp(t, StopOps)
          \/ UserEnd(t)
    \/ \E c \in Conns : PeerClose(c)

SpecStop == Init /\ [][NextStop]_vars

\* outbound text: a goroutine of the embedding program sends messages with
\* and without line terminators while the session lives and after it ended
NextWire ==
    \/ \E t \in Threads :
          \/ Start(t)
          \/ accept(t) /\ nconn' <= LifeConns
          \/ add(t)
          \/ add_decide(t)
          \/ CloseStep(t)
          \/ readln(t)
          \/ rl_error(t)
          \/ rl_fail(t)
          \/ listen(t)
          \/ ls_got(t)
          \/ SendStep(t)
          \/ CbReturn(t)
          \/ UserSend(t)
          \/ UserEnd(t)
    \/ \E c \in Conns : PeerClose(c)

SpecWire == Init /\ [][NextWire]_vars

\* starting and stopping: two goroutines of the embedding program call
\* Start, the bind may fail, and Stop is called by the goroutine that ran
\* the server and by another one
StartOps == {"Stop"}

NextStart ==
    \/ \E t \in Threads :
          \/ ServerStep(t) /\ nconn' <= LifeConns
          \/ MainStop(t)
          \/ Wait(t)
          \/ CloseStep(t)
          \/ readln(t)
          \/ rl_error(t)
          \/ rl_fail(t)
          \/ listen(t)
          \/ ls_got(t)
          \/ CbReturn(t)
          \/ UserStart(t)
          \/ UserOp(t, StartOps)
          \/ UserEnd(t)
    \/ \E c \in Conns : PeerClose(c)

SpecStart == Init /\ [][NextStart]_vars

\* the steps of NextStart goroutine t takes without the peer and without a
\* new call of the embedding program: what a goroutine has begun, it
\* continues
StartProgress(t) ==
    \/ Start(t)
    \/ add(t)
    \/ add_decide(t)
    \/ process(t)
    \/ Stop(t)
    \/ stop_loop(t)
    \/ MainStop(t)
    \/ Wait(t)
    \/ CloseStep(t)
    \/ readln(t)
    \/ rl_error(t)
    \/ rl_fail(t)
    \/ listen(t)
    \/ ls_got(t)
    \/ CbReturn(t)
    \/ UserEnd(t)

\* starting and stopping under the Go scheduler: a goroutine that can take
\* a step takes it eventually; the peers are not obliged to connect or to
\* leave, nor the embedding program to make another call
SpecStartFair == SpecStart /\ \A t \in Threads : WF_vars(StartProgress(t))

\* the data store: a goroutine of the embedding program sets, gets and
\* clears, call after call, while the session is admitted or refused, lives
\* and is closed
NextData ==
    \/ \E t \in Threads :
          \/ Start(t)
          \/ accept(t) /\ nconn' <= LifeConns
          \/ add(t)
          \/ add_decide(t)
          \/ CloseStep(t)
          \/ readln(t)
          \/ rl_error(t)
          \/ rl_fail(t)
          \/ listen(t)
          \/ ls_got(t)
          \/ CbReturn(t)
          \/ UserData(t, DataOps, Keys, Vals)
          \/ DataSet(t)
          \/ DataGet(t)
          \/ DataClear(t)
          \/ UserAgain(t)
    \/ \E c \in Conns : PeerClose(c)

SpecData == Init /\ [][NextData]_vars

\* answers to prompts: what a peer types to a ReadPrompt or a
\* ReadPromptConfirm: "\n", "y\n", "Yes\n", "N\n", "no\n", "aBORT\r\n" and
\* "yess\n"
AnswerLines ==
    { <<LF>>, <<121, LF>>, <<89, 101, 115, LF>>, <<78, LF>>, <<110, 111, LF>>,
      <<97, 66, 79, 82, 84, CR, LF>>, <<121, 101, 115, 115, LF>> }
AnswerOps == {"ReadPrompt", "ReadPromptConfirm"}
AnswerCbOps ==
    [cb_admit |-> {}, cb_message |-> {"ReadPrompt", "ReadPromptConfirm"},
     cb_closed |-> {"ReadPrompt"}]

\* the steps goroutine t takes on its own
AnswerThreadStep(t) ==
    \/ Start(t)
    \/ accept(t) /\ nconn' <= LifeConns
    \/ add(t)
    \/ add_decide(t)
    \/ CloseStep(t)
    \/ ReaderStep(t, AnswerLines)
    \/ SendStep(t)
    \/ HandOffStep(t)
    \/ ReadPrompt(t)
    \/ pr_ack(t)
    \/ ReadPromptConfirm(t)
    \/ cf_ack(t)
    \/ CbOp(t, AnswerCbOps)
    \/ CbReturn(t)
    \/ UserOp(t, AnswerOps)
    \/ UserEnd(t)

NextAnswer ==
    \/ \E t \in Threads : AnswerThreadStep(t)
    \/ \E t, r \in Threads : HandOff(t, r)
    \/ \E c \in Conns : PeerClose(c)

SpecAnswer == Init /\ [][NextAnswer]_vars

\* a menu prompt from a goroutine of the embedding program while the peer
\* types one choice or leaves, under the Go scheduler: a goroutine that can
\* take a step takes it eventually, and so does a rendezvous both sides wait
\* for; the peer is not obliged to do anything
MenuThreadStep(t) ==
    \/ Start(t)
    \/ accept(t) /\ nconn' <= LifeConns
    \/ add(t)
    \/ add_decide(t)
    \/ CloseStep(t)
    \/ ReaderStep(t, {<<50, LF>>})
    \/ SendStep(t)
    \/ HandOffStep(t)
    \/ mn_begin(t)
    \/ ReadPromptMenu(t)
    \/ CbReturn(t)
    \/ UserOp(t, {"ReadPromptMenu"})
    \/ UserEnd(t)

NextMenu ==
    \/ \E t \in Threads : MenuThreadStep(t)
    \/ \E t, r \in Threads : HandOff(t, r)
    \/ \E c \in Conns : PeerClose(c)

SpecMenu == Init /\ [][NextMenu]_vars

SpecMenuFair ==
    /\ SpecMenu
    /\ \A t \in Threads : WF_vars(MenuThreadStep(t))
    /\ WF_vars(\E t, r \in Threads : HandOff(t, r))

CastStep(t) ==
    \/ SendAll(t)
    \/ sa_loop(t)
    \/ sa_sent(t)
    \/ sendAuthorized(t)
    \/ sz_loop(t)
    \/ sz_sent(t)

\* broadcasts: sessions connect, are admitted or refused, and leave while
\* a goroutine of the embedding program broadcasts; the peers send nothing
NextCast ==
    \/ \E t \in Threads :
          \/ Start(t)
          \/ accept(t)
          \/ add(t)
          \/ add_decide(t)
          \/ CloseStep(t)
          \/ readln(t)
          \/ rl_error(t)
          \/ rl_fail(t)
          \/ listen(t)
          \/ ls_got(t)
          \/ SendStep(t)
          \/ CastStep(t)
          \/ CbReturn(t)
          \/ UserCast(t)
          \/ UserEnd(t)
    \/ \E c \in Conns : PeerClose(c)

SpecCast == Init /\ [][NextCast]_vars

\* ========================================================== properties
PromptCalls == {"ReadPrompt", "ReadPromptConfirm", "ReadPromptMenu"}
\* t is inside some call on session c
Inside(t, c) == \E k \in 1..Depth(t) : stk[t][k].c = c
InRegistry(c) == \E k \in Ids : clients[k] = c
\* session c was registered, is disconnected, and no goroutine works on it
SessionOver(c) ==
    /\ id[c] # 0
    /\ ~connected[c]
    /\ \A t \in Threads : ~Inside(t, c)

\* C1: for every session the onClosed callback is invoked at most once,
\* whichever of Close, Stop, a read failure and a write failure race.
C1_OnClosedAtMostOnce == \A c \in Conns : hist.closed[c] <= 1

\* C1 witness: onClosed has fired for a session and another close of it has
\* found it already disconnected.
C1_Witness ==
    \E c \in Conns, t \in Threads :
        /\ hist.closed[c] = 1
        /\ ret[t].fn = "close"
        /\ ret[t].err = "already disconnected"

\* C2: onClosed fires for a session if and only if its authorized flag was
\* ever true: it never fires for a session that was never authorized, and a
\* session that was authorized has had its onClosed by the time it is over.
C2_ClosedIffAuthorized ==
    \A c \in Conns :
        /\ hist.closed[c] > 0 => hist.everAuthorized[c]
        /\ (SessionOver(c) /\ hist.everAuthorized[c]) => hist.closed[c] > 0

\* C3: for a session onNewClient refused, onMessage and onClosed are never
\* invoked and no reader loop is started; once add has ended and no close
\* of the session is under way it is disconnected and out of the registry.
C3_RejectedSession ==
    \A c \in Conns :
        hist.admit[c] = "no" =>
            /\ ~hist.message[c]
            /\ hist.closed[c] = 0
            /\ ~hist.reader[c]
            /\ stk[ListenT(c)] = <<>>
            /\ (stk[AddT(c)] = <<>> /\ \A t \in Threads : ~InClose(t, c))
                  => (~connected[c] /\ ~InRegistry(c))

\* C3 witness: a refused session whose add goroutine has ended, closed and
\* removed.
C3_Witness ==
    \E c \in Conns :
        /\ hist.admit[c] = "no"
        /\ stk[AddT(c)] = <<>>
        /\ ~connected[c]
        /\ ~InRegistry(c)

\* C4: once Wait() has returned after Stop(), the reader loop of every
\* session has exited and no callback is invoked any more.
C4_WaitJoinsReaders ==
    hist.waitReturned =>
        /\ \A c \in Conns : stk[ListenT(c)] = <<>>
        /\ ~hist.late

\* t reads the connection of c for a prompt call
PromptReads(t, c) ==
    /\ At(t, "rl_read")
    /\ Top(t).c = c
    /\ Depth(t) > 1
    /\ stk[t][Depth(t) - 1].pc = "rp_read"
\* t is the reader loop of c, reading the connection
LoopReads(t, c) ==
    /\ At(t, "rl_read")
    /\ Top(t).c = c
    /\ Depth(t) = 2
    /\ stk[t][1].pc = "ls_got"

\* C5: no prompt call reads the connection while the reader loop of the
\* session reads it.
C5_OneReader ==
    \A c \in Conns : \A t, u \in Threads :
        ~(t # u /\ LoopReads(t, c) /\ PromptReads(u, c))

\* C6: ReadPromptMenu with a non-empty menu returns only (k-1, false) for an
\* answer k in 1..len(menu), or (-1, true) for the answer "abort" (or a
\* failed read); any other answer prompts again.
C6_MenuResult ==
    \A t \in Threads :
        (ret[t].fn = "ReadPromptMenu" /\ ret[t].err = "nil") =>
            LET int == Atoi(ret[t].str) IN
            IF int.ok /\ int.val >= 1 /\ int.val <= MenuLen
            THEN ret[t].n = int.val - 1 /\ ~ret[t].b
            ELSE /\ ret[t].b
                 /\ ret[t].n = -1
                 /\ (ToLower(ret[t].str) = Abort \/ ret[t].io)

\* t is in a prompt call whose readprompt has just reported aborted
PromptFailed(t) ==
    /\ At(t, "pr_ret") \/ At(t, "cf_ret") \/ At(t, "mn_ret")
    /\ ret[t].fn = "readprompt"
    /\ ret[t].b

\* C7: when readprompt fails because the session is closed or its
\* connection failed, the prompt call returns aborted=true at once; none of
\* ReadPrompt, ReadPromptConfirm, ReadPromptMenu prompts again.
C7_PromptAborts ==
    [][\A t \in Threads :
          (PromptFailed(t) /\ stk'[t] # stk[t]) =>
              (ret'[t].fn \in PromptCalls /\ ret'[t].b)]_vars

\* C8: a Send whose write or flush failed reports a failure.
C8_SendReportsFailure ==
    \A t \in Threads : (ret[t].fn = "Send" /\ ret[t].io) => ~ret[t].b

\* C9: a call made on a session that was already closed when it began fails:
\* Send reports failure, Readln returns client-not-connected, a prompt call
\* reports aborted.
C9_ClosedSessionFails ==
    \A t \in Threads :
        (At(t, "returned") /\ Top(t).b) =>
            /\ ret[t].fn = "Send" => ~ret[t].b
            /\ ret[t].fn = "readln" => ret[t].err = "client not connected"
            /\ ret[t].fn \in PromptCalls => ret[t].b

\* C10: a close that finds the session disconnected returns the
\* already-disconnected error and changes nothing: no callback, registry,
\* wait counter, hand-off channel, data store and flags as before.
C10_CloseIdempotent ==
    [][\A t \in Threads :
          (At(t, "close") /\ ~connected[Top(t).c] /\ stk'[t] # stk[t]) =>
              /\ ret'[t].fn = "close"
              /\ ret'[t].err = "already disconnected"
              /\ UNCHANGED <<serverVars, flagVars, connVars, lockVars, db, hist>>]_vars

\* C10 witness: a close has returned already-disconnected on a session
\* whose data store holds a value.
C10_Witness ==
    \E t \in Threads, c \in Conns :
        /\ ret[t].fn = "close"
        /\ ret[t].err = "already disconnected"
        /\ ~connected[c]
        /\ id[c] # 0
        /\ db[c].alloc

\* C11: identifiers start at 1 and are handed out in registration order,
\* one per session, strictly increasing: the k-th session registered has
\* identifier k for good, no two sessions share one, and maxid is past all.
C11_Identifiers ==
    LET regs == hist.regs IN
    /\ maxid = Len(regs) + 1
    /\ \A k \in 1..Len(regs) : id[regs[k]] = k
    /\ \A k, j \in 1..Len(regs) : k # j => regs[k] # regs[j]
    /\ \A c \in Conns : id[c] # 0 => \E k \in 1..Len(regs) : regs[k] = c
    /\ \A c, d \in Conns : (c # d /\ id[c] # 0) => id[c] # id[d]

\* C11 witness: two sessions are registered, the one accepted second first,
\* and the one registered first has already left the registry.
C11_Witness ==
    /\ hist.regs = <<2, 1>>
    /\ id[2] = 1
    /\ id[1] = 2
    /\ ~InRegistry(2)
    /\ InRegistry(1)

\* the broadcast functions
CastFns == {"SendAll", "sendAuthorized"}

\* C12: a broadcast returns EmptyMessage exactly for the empty message;
\* for a non-empty message it returns NoClientsAvailable whenever no target
\* is left after the authorization filter and the exclusion, and
\* SentToNoClients only when a target was left and every send to it failed.
C12_CastErrors ==
    \A t \in Threads :
        ret[t].fn \in CastFns =>
            LET k == ret[t].cast IN
            /\ (ret[t].str = <<>>) <=> (ret[t].err = "empty string invalid")
            /\ (ret[t].str # <<>> /\ Len(k.log) = 0)
                  => ret[t].err = "no clients available"
            /\ ret[t].err = "sent to no clients" => (Len(k.log) > 0 /\ k.good = 0)

\* C13: the count a broadcast returns is the number of targets the message
\* was written to successfully; a target whose write failed is not counted.
C13_CastCount ==
    \A t \in Threads :
        (ret[t].fn \in CastFns /\ ret[t].str # <<>>) => ret[t].n = ret[t].cast.good

\* C14: a SendAll of a non-empty message that takes its snapshot when every
\* session has disconnected and been closed returns count 0 and an error.
C14_AllGone ==
    \A t \in Threads :
        (ret[t].fn = "SendAll" /\ ret[t].str # <<>> /\ ret[t].cast.gone)
            => (ret[t].n = 0 /\ ret[t].err # "nil")

\* C14 witness: two sessions were registered, one of them admitted and
\* closed (onClosed was invoked) after its peer left; SendAll with no
\* exclusion has returned 0 and an error.
C14_Witness ==
    \E t \in Threads :
        /\ ret[t].fn = "SendAll"
        /\ ret[t].str # <<>>
        /\ ret[t].cast.gone
        /\ At(t, "returned") /\ Top(t).c = 0
        /\ ret[t].n = 0
        /\ ret[t].err = "no clients available"
        /\ nconn = 2
        /\ \E c \in Conns : peerClosed[c] /\ hist.reader[c] /\ hist.closed[c] = 1

\* the frames of the loop of a broadcast
CastLoopFrames == {"sa_loop", "sa_sent", "sz_loop", "sz_sent"}

\* the sessions cast has sent to are sessions of its snapshot, the snapshot
\* and the sends are in strictly ascending identifier order, and excl is
\* not among them
CastInOrder(cast, excl) ==
    /\ \A i, j \in 1..Len(cast.snap) : i < j => id[cast.snap[i]] < id[cast.snap[j]]
    /\ \A i \in 1..Len(cast.log) : \E j \in 1..Len(cast.snap) : cast.log[i] = cast.snap[j]
    /\ \A i, j \in 1..Len(cast.log) : i < j => id[cast.log[i]] < id[cast.log[j]]
    /\ \A i \in 1..Len(cast.log) : cast.log[i] # excl

\* C15: a broadcast, while it runs and when it has returned, has sent only
\* to sessions of the snapshot it took at its start, in strictly ascending
\* identifier order (so to none twice), and never to the excluded session.
C15_CastOrder ==
    \A t \in Threads :
        /\ \A k \in 1..Depth(t) :
              stk[t][k].pc \in CastLoopFrames => CastInOrder(stk[t][k].cast, stk[t][k].c)
        /\ (ret[t].fn \in CastFns /\ At(t, "returned"))
              => CastInOrder(ret[t].cast, Top(t).c)

\* C15 witness: a broadcast has sent to both sessions, first to the one
\* accepted second (it registered first), while the other session was
\* leaving the registry.
C15_Witness ==
    \E t \in Threads :
        /\ ret[t].fn \in CastFns
        /\ At(t, "returned")
        /\ ret[t].cast.log = <<2, 1>>
        /\ ~InRegistry(2)

\* C16: whenever sendAuthorized calls Send on a session, the session has
\* passed admission (onNewClient returned true for it) if the broadcast is
\* SendAllAuthorized, and has not if it is SendAllUnauthorized.
C16_CastFilter ==
    [][\A t \in Threads :
          (At(t, "sz_loop") /\ Len(stk'[t]) = Depth(t) + 1) =>
              LET sc == stk'[t][Depth(t) + 1].c IN
              IF Top(t).b THEN hist.admit[sc] = "yes" ELSE hist.admit[sc] # "yes"]_vars

\* the frames of readprompt between c.p.Lock() and c.p.Unlock(): the prompt
\* text is being sent or the answer awaited
ExchangeFrames == {"rp_sent", "rp_read", "rp_recv", "rp_got"}
\* t is in a prompt exchange on session c
InExchange(t, c) ==
    \E k \in 1..Depth(t) : stk[t][k].c = c /\ stk[t][k].pc \in ExchangeFrames

\* C19: at most one goroutine at a time is between sending a prompt text
\* and receiving its answer on a session, it is the holder of the prompt
\* lock, and an answer handed off or read is held by that goroutine only.
C19_OneExchange ==
    \A c \in Conns :
        /\ \A t, u \in Threads : (InExchange(t, c) /\ InExchange(u, c)) => t = u
        /\ \A t \in Threads : InExchange(t, c) <=> p[c] = t

\* C19 witness: a goroutine has sent its prompt and awaits the answer on
\* the hand-off channel while another goroutine waits at the prompt lock of
\* the same session.
C19_Witness ==
    \E c \in Conns, t, u \in Threads :
        /\ t # u
        /\ At(t, "rp_recv") /\ Top(t).c = c /\ p[c] = t
        /\ At(u, "readprompt") /\ Top(u).c = c

\* C17: a prompt call that waits on the hand-off channel of a session that
\* has been closed eventually returns to its caller with aborted = true.
C17_BlockedPromptAborts ==
    \A t \in Threads :
        (At(t, "rp_recv") /\ pmsgClosed[Top(t).c])
            ~> (ret[t].fn \in PromptCalls /\ ret[t].b)

\* t is inside the message callback of session c
InMessage(t, c) ==
    \E k \in 1..Depth(t) : stk[t][k].c = c /\ stk[t][k].pc = "cb_message"

\* C20: onMessage gets the lines of a session in the order the peer sent
\* them, and no two goroutines are inside onMessage of one session at once.
C20_MessageOrder ==
    \A c \in Conns :
        /\ hist.inOrder[c]
        /\ \A t, u \in Threads : (InMessage(t, c) /\ InMessage(u, c)) => t = u

\* t is inside the message callback of session c in the next state
InMessageNext(t, c) ==
    \E k \in 1..Len(stk'[t]) : stk'[t][k].c = c /\ stk'[t][k].pc = "cb_message"

\* a reader loop of session c is, in the next state, between setting and
\* clearing callbackRunning around its call of onMessage
InWindowNext(t, c) ==
    \E k \in 1..Len(stk'[t]) :
        stk'[t][k].c = c /\ stk'[t][k].pc \in {"ls_leave", "ls_exit"}

\* C18: the reader loop sends a line it examines while the prompt flag is
\* set to the hand-off channel and not to onMessage, and a line it examines
\* while the flag is clear to onMessage; a line on its way to the channel
\* leaves the reader loop only to the goroutine holding the prompt lock or
\* when the channel is closed; callbackRunning is true while a goroutine is
\* inside onMessage of the session, and only while a reader loop is between
\* setting the flag before the callback and clearing it afterwards.
C18_Dispatch ==
    [][/\ \A t \in Threads :
             (At(t, "ls_got") /\ ret[t].err = "nil" /\ stk'[t] # stk[t]) =>
                 stk'[t][1].pc = IF prompt[Top(t).c] THEN "ls_send" ELSE "ls_enter"
       /\ \A t \in Threads :
             (At(t, "ls_send") /\ stk'[t] # stk[t]) =>
                 /\ hist'.message = hist.message
                 /\ ~InMessageNext(t, Top(t).c)
                 /\ \/ pmsgClosed[Top(t).c]
                    \/ \E r \in Threads :
                          /\ p[Top(t).c] = r
                          /\ At(r, "rp_recv")
                          /\ stk'[r][Depth(r)].pc = "rp_got"
                          /\ stk'[r][Depth(r)].str = Top(t).str
       /\ \A c \in Conns :
             /\ (\E t \in Threads : InMessageNext(t, c)) => callbackRunning'[c]
             /\ callbackRunning'[c] => \E t \in Threads : InWindowNext(t, c)]_vars

\* what the scan of the first k bytes of str has accumulated: a printable
\* byte is appended, a backspace removes the last accumulated byte if there
\* is one, any other byte is dropped
RECURSIVE ScanPrefix(_, _)
ScanPrefix(str, k) ==
    IF k = 0 THEN <<>>
    ELSE LET acc == ScanPrefix(str, k - 1)
             b == str[k]
         IN  IF b = 8 THEN (IF acc = <<>> THEN acc ELSE SubSeq(acc, 1, Len(acc) - 1))
             ELSE IF b \in 32..126 THEN Append(acc, b)
             ELSE acc

\* C21: for every byte string the Line Decoder returns what the left to
\* right scan accumulates (printable bytes appended, a backspace removing
\* the last accumulated byte if any, other bytes dropped), and no byte of
\* the result is outside 0x20..0x7E.
C21_LineDecoder ==
    \A t \in Threads :
        At(t, "formatted") =>
            /\ ret[t].str = ScanPrefix(Top(t).str, Len(Top(t).str))
            /\ \A k \in 1..Len(ret[t].str) : ret[t].str[k] \in 32..126

\* C21 witness: "ab\bc" has been decoded to "ac".
C21_Witness ==
    \E t \in Threads :
        /\ At(t, "formatted")
        /\ Top(t).str = <<97, 98, BS, 99>>
        /\ ret[t].str = <<97, 99>>

\* message without its leading and trailing CR and LF bytes: what lies
\* between its first and its last byte that is neither
CutCRLF(message) ==
    LET keep == {k \in 1..Len(message) : message[k] \notin {13, 10}}
    IN  IF keep = {} THEN <<>>
        ELSE SubSeq(message, CHOOSE k \in keep : \A j \in keep : k <= j,
                             CHOOSE k \in keep : \A j \in keep : k >= j)

\* C22: Send(m) writes m without its leading and trailing CR and LF,
\* followed by one "\r\n"; when nothing is left of m it returns false at
\* once: nothing is written, the session is not closed, no state changes.
C22_SendWire ==
    [][\A t \in Threads :
          /\ (At(t, "Send") /\ stk'[t] # stk[t]) =>
                IF CutCRLF(Top(t).str) = <<>>
                THEN /\ Len(stk'[t]) = Depth(t) - 1
                     /\ ret'[t].fn = "Send"
                     /\ ~ret'[t].b
                     /\ ret'[t].str = <<>>
                     /\ UNCHANGED <<serverVars, flagVars, connVars, lockVars, db, hist>>
                ELSE stk'[t][Depth(t)].pc = "send_unlock"
          /\ ((At(t, "send_unlock") \/ At(t, "send_ret")) /\ Len(stk'[t]) = Depth(t) - 1) =>
                ret'[t].str = CutCRLF(Top(t).str) \o <<13, 10>>]_vars

\* C22 witness: Send("x\r\r\n\n") has returned after writing "x\r\n".
C22_Witness ==
    \E t \in Threads :
        /\ At(t, "returned")
        /\ Top(t).str = <<120, 13, 13, 10, 10>>
        /\ ret[t].fn = "Send"
        /\ ret[t].b
        /\ ~ret[t].io
        /\ ret[t].str = <<120, 13, 10>>

\* C23: Send("  hello  \r\n") writes exactly "hello\r\n".
C23_SpacesTrimmed ==
    \A t \in Threads :
        ( /\ At(t, "returned")
          /\ ret[t].fn = "Send"
          /\ Top(t).str = <<32, 32, 104, 101, 108, 108, 111, 32, 32, 13, 10>> )
            => ret[t].str = <<104, 101, 108, 108, 111, 13, 10>>

\* goroutine t completes a call of Server.Start in this step
StartStep(t) == At(t, "m_init") /\ (stk'[t] # stk[t] \/ ret'[t] # ret[t])

\* C24: started becomes true by a Start() that succeeds and by nothing
\* else, and stays true.  A Start() on the started server returns
\* already-started and changes nothing; a Start() whose bind fails returns
\* the error, leaves the server not started, starts no accept loop, leaves
\* the wait counter alone, and its caller can call Start() again; a Start()
\* that succeeds opens the one listener and starts the one accept loop.
C24_Start ==
    [][/\ started => started'
       /\ (~started /\ started') =>
             \E t \in Threads : StartStep(t) /\ ret'[t].fn = "Start" /\ ret'[t].err = "nil"
       /\ \A t \in Threads :
             StartStep(t) =>
                /\ ret'[t].fn = "Start"
                /\ IF started
                   THEN /\ ret'[t].err = "already started"
                        /\ UNCHANGED <<serverVars, flagVars, connVars, lockVars, db, stk, hist>>
                   ELSE \/ /\ ret'[t].err = "nil"
                           /\ started'
                           /\ listener = "nil" /\ listener' = "open"
                           /\ wg' = wg + 1
                           /\ stk[Acc] = <<>> /\ At(Acc, "accept")'
                        \/ /\ ret'[t].err \notin {"nil", "already started"}
                           /\ At(t, "m_init")'
                           /\ UNCHANGED <<serverVars, flagVars, connVars, lockVars, db, stk, hist>>]_vars

\* C24 witness: one goroutine has started the server, the accept loop
\* runs, and the Start() of another goroutine has returned already-started.
C24_Witness ==
    \E t, u \in Threads :
        /\ t # u
        /\ ret[t].fn = "Start" /\ ret[t].err = "nil"
        /\ ret[u].fn = "Start" /\ ret[u].err = "already started"
        /\ started
        /\ At(Acc, "accept")

\* the sessions in the registry when a call of Stop by t begins: those
\* found when Stop took the registry lock
StopBegan(t) ==
    IF At(t, "Stop") THEN {clients[k] : k \in Registered}
    ELSE {c \in Conns : id[c] \in Top(t).must}

\* C26: when a Stop() on a started server returns, the listener is closed
\* and every session that was in the registry when the call began is
\* disconnected.
C26_StopDisconnects ==
    [][\A t \in Threads :
          ((At(t, "Stop") \/ At(t, "stop_loop")) /\ Len(stk'[t]) = Depth(t) - 1) =>
              /\ listener' = "closed"
              /\ \A c \in StopBegan(t) : ~connected'[c]]_vars

\* the accepted connections whose session has not been removed yet
Tracked == {c \in 1..nconn : id[c] = 0 \/ InRegistry(c)}

\* C25: the wait counter is never negative and counts the accept loop and
\* the accepted connections whose session has not been removed; once Wait()
\* has returned the accept loop has exited, the registry is empty, and the
\* session of every accepted connection is disconnected and its close has
\* run to its end.
C25_WaitReturns ==
    /\ wg >= 0
    /\ wg = (IF stk[Acc] # <<>> THEN 1 ELSE 0) + Cardinality(Tracked)
    /\ hist.waitReturned =>
          /\ stk[Acc] = <<>>
          /\ Registered = {}
          /\ \A c \in 1..nconn :
                /\ id[c] # 0
                /\ ~connected[c]
                /\ \A t \in Threads : ~InClose(t, c)

\* the frames of the loop of listen()
LoopFrames == {"listen", "ls_got", "ls_send", "ls_enter", "ls_leave"}
\* in the next state goroutine t runs a reader loop of session c
ReaderLoopNext(t, c) ==
    /\ stk'[t] # <<>>
    /\ stk'[t][1].c = c
    /\ stk'[t][1].pc \in LoopFrames

\* C27: a Client.Stop() called while the message callback of the session
\* is running ends that callback execution and leaves exactly one reader
\* loop running for the session; called while no message callback is
\* running it returns and changes nothing.
C27_StopRelaunches ==
    [][\A t \in Threads :
          (At(t, "ClientStop") /\ stk'[t] # stk[t]) =>
              LET c == Top(t).c IN
              IF \E u \in Threads : InMessage(u, c)
              THEN /\ \A u \in Threads : ~InMessageNext(u, c)
                   /\ Cardinality({u \in Threads : ReaderLoopNext(u, c)}) = 1
              ELSE /\ ret'[t].fn = "ClientStop"
                   /\ Len(stk'[t]) = Depth(t) - 1
                   /\ \A u \in Threads \ {t} : stk'[u] = stk[u]
                   /\ UNCHANGED <<serverVars, flagVars, connVars, lockVars, db, hist>>]_vars

\* the value the store of session c holds for key k; NoVal when it holds
\* none
Stored(c, k) == IF db[c].alloc THEN db[c].kv[k] ELSE NoVal
\* the value the store of session c holds for key k in the next state
StoredNext(c, k) == IF db'[c].alloc THEN db'[c].kv[k] ELSE NoVal
\* goroutine t completes, in this step, a call of fn on the store of c
DataStep(t, fn, c) ==
    /\ At(t, fn)
    /\ Top(t).c = c
    /\ Len(stk'[t]) = Depth(t) - 1

\* C28: the store of a session is a map, whatever the state of the
\* connection: DataSet(k, v) makes v the value of k and touches no other
\* key, DataGet(k) returns the value of k (nil when there is none) and
\* changes nothing, DataClear and the end of close leave no key with a
\* value, and nothing else changes the value of any key.
C28_DataStore ==
    [][\A c \in Conns :
          /\ \A t \in Threads :
                /\ DataStep(t, "DataSet", c) =>
                      /\ StoredNext(c, Top(t).key) = Top(t).val
                      /\ \A k \in Keys \ {Top(t).key} : StoredNext(c, k) = Stored(c, k)
                /\ DataStep(t, "DataGet", c) =>
                      /\ ret'[t].fn = "DataGet"
                      /\ ret'[t].val = Stored(c, Top(t).key)
                      /\ ret'[t].b <=> (Stored(c, Top(t).key) # NoVal)
                      /\ db' = db
                /\ (DataStep(t, "DataClear", c) \/ DataStep(t, "close_clear", c)) =>
                      \A k \in Keys : StoredNext(c, k) = NoVal
          /\ \A k \in Keys :
                StoredNext(c, k) # Stored(c, k) =>
                    \E t \in Threads :
                        \/ DataStep(t, "DataSet", c) /\ Top(t).key = k
                        \/ DataStep(t, "DataClear", c)
                        \/ DataStep(t, "close_clear", c)]_vars

\* C28 witness: the session was admitted, its peer left, its close has run
\* to its end, and a DataGet on the disconnected session has returned the
\* value a DataSet stored after the close.
C28_Witness ==
    \E t \in Threads, c \in Conns :
        /\ At(t, "returned") /\ Top(t).c = c
        /\ ret[t].fn = "DataGet"
        /\ ret[t].val = "w"
        /\ ~connected[c]
        /\ hist.closed[c] = 1
        /\ \A u \in Threads : ~InClose(u, c)

\* t is in a blocking call on the connection: the read of readln, or the
\* write and flush of Send
InConnIO(t) == At(t, "rl_read") \/ At(t, "send_unlock")

\* C29: a goroutine that is in a blocking read, write or flush of a
\* connection holds no session lock and no prompt lock.
C29_NoLockAcrossIO ==
    \A t \in Threads :
        InConnIO(t) => \A c \in Conns : mu[c] # t /\ p[c] # t

\* Server.Clients: the registered sessions by ascending identifier
Clients == clientsSorted

\* C30: Clients() lists the registered sessions in the order in which
\* their connections were accepted (connection c is the c-th accepted).
C30_ConnectionOrder ==
    \A i, j \in 1..Len(Clients) : i < j => Clients[i] < Clients[j]

\* str is word (lower-case letters) written in any mix of cases
SameLetters(str, word) ==
    /\ Len(str) = Len(word)
    /\ \A k \in 1..Len(word) : str[k] = word[k] \/ str[k] = word[k] - 32

\* goroutine t, at the frame pc of a prompt call, has the answer of a
\* readprompt that succeeded and takes its step
Answered(t, pc) ==
    /\ At(t, pc)
    /\ ret[t].fn = "readprompt"
    /\ ~ret[t].b
    /\ stk'[t] # stk[t]
\* in the next state t has returned (res, aborted) from the call fn
ReturnsNext(t, fn, res, aborted) ==
    /\ Len(stk'[t]) = Depth(t) - 1
    /\ ret'[t].fn = fn
    /\ ret'[t].n = res
    /\ ret'[t].b = aborted
\* in the next state t is in Send("Aborted.") and its prompt call will
\* return aborted = TRUE from the frame pc when that Send has returned
AcksNext(t, pc) ==
    /\ Len(stk'[t]) = Depth(t) + 1
    /\ stk'[t][Depth(t)].pc = pc
    /\ stk'[t][Depth(t)].b
    /\ stk'[t][Depth(t) + 1] = SendFrame(Top(t).c, <<65, 98, 111, 114, 116, 101, 100, 46>>)

\* C31: ReadPromptConfirm returns (true, false) for the answer "y" or
\* "yes", (false, false) for "n" or "no", and (false, true) after sending
\* "Aborted." for "abort", in any mix of cases; for the empty answer and for
\* any other answer it does not return: it calls readprompt again with the
\* prompt prefixed with a complaint, and readprompt sends that text.
C31_Confirm ==
    [][\A t \in Threads :
          /\ Answered(t, "cf_ret") =>
                LET answer == ret[t].str IN
                IF SameLetters(answer, <<121>>) \/ SameLetters(answer, <<121, 101, 115>>)
                THEN ReturnsNext(t, "ReadPromptConfirm", 1, FALSE)
                ELSE IF SameLetters(answer, <<110>>) \/ SameLetters(answer, <<110, 111>>)
                THEN ReturnsNext(t, "ReadPromptConfirm", 0, FALSE)
                ELSE IF SameLetters(answer, <<97, 98, 111, 114, 116>>)
                THEN AcksNext(t, "cf_ack")
                ELSE /\ Len(stk'[t]) = Depth(t) + 1
                     /\ stk'[t][Depth(t)].pc = "cf_ret"
                     /\ stk'[t][Depth(t) + 1].pc = "readprompt"
                     /\ stk'[t][Depth(t) + 1].c = Top(t).c
                     /\ stk'[t][Depth(t) + 1].str =
                           (IF answer = <<>> THEN EmptyComplaint
                            ELSE UnsupportedComplaint(answer)) \o PromptText
          /\ (At(t, "cf_ack") /\ stk'[t] # stk[t]) =>
                ReturnsNext(t, "ReadPromptConfirm", 0, TRUE)
          /\ (At(t, "readprompt") /\ stk'[t] # stk[t]) =>
                stk'[t][Depth(t) + 1] = SendFrame(Top(t).c, Top(t).str)]_vars

\* C31 witness: a ReadPromptConfirm whose answer was "yess" has sent
\* "The entry yess is unsupported." with its prompt and awaits the next
\* answer.
C31_Witness ==
    \E t \in Threads :
        \E k \in 2..Depth(t) :
            /\ stk[t][k - 1].pc = "cf_ret"
            /\ stk[t][k].pc \in {"rp_recv", "rp_read"}
            /\ stk[t][k].str = UnsupportedComplaint(<<121, 101, 115, 115>>) \o PromptText

\* C32: ReadPrompt returns (answer, false) for every answer it read that
\* is not "abort"; for an answer that is "abort" in any mix of cases it
\* sends "Aborted." and returns the answer with aborted = true.
C32_ReadPrompt ==
    [][\A t \in Threads :
          /\ Answered(t, "pr_ret") =>
                IF SameLetters(ret[t].str, <<97, 98, 111, 114, 116>>)
                THEN AcksNext(t, "pr_ack") /\ stk'[t][Depth(t)].str = ret[t].str
                ELSE /\ Len(stk'[t]) = Depth(t) - 1
                     /\ ret'[t].fn = "ReadPrompt"
                     /\ ret'[t].str = ret[t].str
                     /\ ~ret'[t].b
          /\ (At(t, "pr_ack") /\ stk'[t] # stk[t]) =>
                /\ ret[t].fn = "Send"
                /\ Len(stk'[t]) = Depth(t) - 1
                /\ ret'[t].fn = "ReadPrompt"
                /\ ret'[t].str = Top(t).str
                /\ ret'[t].b]_vars

\* C32 witness: a ReadPrompt called by a goroutine of the embedding program
\* has returned ("aBORT", true) after its Send of "Aborted." wrote to the
\* connected session.
C32_Witness ==
    \E t \in Threads :
        /\ At(t, "returned")
        /\ ret[t].fn = "ReadPrompt"
        /\ ret[t].str = <<97, 66, 79, 82, 84>>
        /\ ret[t].b
        /\ connected[Top(t).c]

\* goroutine t, in readprompt, has sent its prompt text and takes its step
PromptSent(t) ==
    /\ At(t, "rp_sent")
    /\ ret[t].fn = "Send"
    /\ ret[t].b
    /\ stk'[t] # stk[t]
\* in the next state the readprompt of t is in its own readln
DirectReadNext(t) ==
    /\ Len(stk'[t]) = Depth(t) + 1
    /\ stk'[t][Depth(t)].pc = "rp_read"
    /\ stk'[t][Depth(t) + 1] = Frame("readln", Top(t).c)
\* in the next state the readprompt of t waits on the hand-off channel
AwaitsHandOffNext(t) ==
    /\ Len(stk'[t]) = Depth(t)
    /\ stk'[t][Depth(t)].pc = "rp_recv"
\* the readprompt of t returns in this step
PromptReturns(t) ==
    /\ Depth(t) > 0
    /\ Top(t).pc \in {"rp_sent", "rp_read", "rp_recv", "rp_got"}
    /\ Len(stk'[t]) = Depth(t) - 1
\* a goroutine waiting on the hand-off channel leaves it with the one line
\* a reader loop was sending, or with aborted = TRUE on the closed channel
OneLineNext(t) ==
    \/ /\ pmsgClosed[Top(t).c]
       /\ PromptReturns(t)
       /\ ret'[t].b
    \/ /\ Len(stk'[t]) = Depth(t)
       /\ stk'[t][Depth(t)].pc = "rp_got"
       /\ \E r \in Threads :
             /\ At(r, "ls_send")
             /\ Top(r).c = Top(t).c
             /\ stk'[t][Depth(t)].str = Top(r).str
             /\ stk'[r] # stk[r]

\* C33: readprompt chooses its read path from the state of the reader
\* loop it found (the listening flag it read): when the reader loop was
\* idle waiting to read (listening true) it reads the connection itself;
\* when the reader loop is active (the prompt is called from the message
\* callback the loop is in) it marks prompt-active and waits on the
\* hand-off channel; when the call returns prompt-active is false.
C33_ReadPath ==
    [][\A t \in Threads :
          /\ PromptSent(t) =>
                /\ Top(t).b => DirectReadNext(t)
                /\ (~Top(t).b /\ InMessage(t, Top(t).c)) =>
                      AwaitsHandOffNext(t) /\ prompt'[Top(t).c]
          /\ PromptReturns(t) => ~prompt'[Top(t).c]]_vars

\* C33 as amended: readprompt marks prompt-active in both paths; when the
\* listening flag it read was true (the reader loop is outside the message
\* callback) it waits on the hand-off channel, which it leaves with exactly
\* one line or on the closed channel; when the flag was false (the reader
\* loop is inside the message callback, was not started yet, or has ended)
\* it reads the connection itself; when the call returns prompt-active is
\* false.
C33_ReadPathAmended ==
    [][\A t \in Threads :
          /\ PromptSent(t) =>
                /\ prompt[Top(t).c] /\ prompt'[Top(t).c]
                /\ IF Top(t).b THEN AwaitsHandOffNext(t) ELSE DirectReadNext(t)
          /\ (At(t, "rp_recv") /\ stk'[t] # stk[t]) => OneLineNext(t)
          /\ (At(t, "rp_got") /\ stk'[t] # stk[t]) =>
                /\ PromptReturns(t)
                /\ ret'[t].str = Top(t).str
                /\ ~ret'[t].b
          /\ PromptReturns(t) => ~prompt'[Top(t).c]]_vars

\* C33 witness: the reader loop of a session waits in its read, and a
\* prompt call of another goroutine, which found listening true, waits on
\* the hand-off channel with prompt-active set.
C33_Witness ==
    \E c \in Conns, t \in Threads :
        /\ At(t, "rp_recv") /\ Top(t).c = c /\ Top(t).b
        /\ prompt[c]
        /\ LoopReads(ListenT(c), c)
        /\ listening[c] /\ ~callbackRunning[c]

\* a close of session c is between its critical section and its call of
\* remove: inside onClosed, or about to take the session lock again, or
\* about to call remove
CloseWindow(c) ==
    \E t \in Threads : \E k \in 1..Depth(t) :
        stk[t][k].c = c /\ stk[t][k].pc \in {"close_relock", "close_remove"}

\* goroutine t, in close() of session c at the frame pc, takes its step
CloseAt(t, c, pc) == At(t, pc) /\ Top(t).c = c /\ stk'[t] # stk[t]

\* the snapshot of the registry the broadcast of t takes in this step
SnapshotNext(t) ==
    IF Len(stk'[t]) = Depth(t) THEN stk'[t][Depth(t)].cast.snap ELSE ret'[t].cast.snap

\* C34: a close that finds the session connected closes the socket, sets
\* connected = false and releases the hand-off channel, then invokes
\* onClosed if and only if the session was authorized, then removes the
\* session from the registry, then clears the data store; so a session in
\* the registry (one that Clients() returns, one that a broadcast takes
\* into its snapshot) is connected unless its own close is between the
\* first of these steps and the removal.
C34_CloseOrder ==
    /\ [](\A c \in Conns : (InRegistry(c) /\ ~connected[c]) => CloseWindow(c))
    /\ [](\A k \in 1..Len(Clients) : connected[Clients[k]] \/ CloseWindow(Clients[k]))
    /\ [][\A t \in Threads : \A c \in Conns :
            /\ (CloseAt(t, c, "close") /\ connected[c]) =>
                  /\ sock'[c] = "closed" /\ ~connected'[c] /\ pmsgClosed'[c]
                  /\ clients' = clients /\ db' = db
                  /\ IF authorized[c]
                     THEN /\ hist'.closed[c] = hist.closed[c] + 1
                          /\ stk'[t][Depth(t)].pc = "close_relock"
                          /\ stk'[t][Depth(t) + 1].pc = "cb_closed"
                          /\ stk'[t][Depth(t) + 1].c = c
                     ELSE /\ hist'.closed = hist.closed
                          /\ stk'[t][Depth(t)].pc = "close_remove"
            /\ CloseAt(t, c, "close_relock") =>
                  /\ stk'[t][Depth(t)].pc = "close_remove"
                  /\ clients' = clients /\ db' = db /\ hist'.closed = hist.closed
            /\ CloseAt(t, c, "close_remove") =>
                  /\ ~connected[c] /\ pmsgClosed[c] /\ sock[c] = "closed"
                  /\ \A k \in Ids : clients'[k] # c
                  /\ db' = db /\ hist'.closed = hist.closed
                  /\ stk'[t][Depth(t)].pc = "close_clear"
            /\ CloseAt(t, c, "close_clear") =>
                  /\ ~InRegistry(c)
                  /\ db'[c] = NilDB
                  /\ Len(stk'[t]) = Depth(t) - 1
                  /\ ret'[t].fn = "close" /\ ret'[t].err = "nil"
            /\ ((At(t, "SendAll") \/ At(t, "sendAuthorized")) /\ stk'[t] # stk[t]) =>
                  \A k \in 1..Len(SnapshotNext(t)) :
                      LET sc == SnapshotNext(t)[k]
                      IN  InRegistry(sc) /\ (connected[sc] \/ CloseWindow(sc))]_vars

\* C34 witness: onClosed of a session is running; the session is
\* disconnected, its hand-off channel released, it is still in the registry
\* and Clients() returns it, and a broadcast has it in its snapshot.
C34_Witness ==
    \E c \in Conns, t, u \in Threads :
        /\ At(u, "cb_closed") /\ Top(u).c = c
        /\ ~connected[c] /\ pmsgClosed[c]
        /\ \E k \in 1..Len(Clients) : Clients[k] = c
        /\ At(t, "sa_loop")
        /\ \E k \in 1..Len(Top(t).cast.snap) : Top(t).cast.snap[k] = c
        /\ db[c] = NilDB

\* goroutine t invokes a callback in this step: the frame of the callback
\* is the new top of its stack
InvokesCallback(t) ==
    /\ Len(stk'[t]) = Depth(t) + 1
    /\ stk'[t][Depth(t) + 1].pc \in {"cb_admit", "cb_message", "cb_closed"}

\* C35: a goroutine that invokes a callback holds no session lock and no
\* prompt lock at that moment (the registry lock is never held from one
\* step to the next), and no goroutine waits for a prompt lock that it holds
\* itself.
C35_CallbacksUnlocked ==
    /\ [][\A t \in Threads :
            InvokesCallback(t) => \A c \in Conns : mu'[c] # t /\ p'[c] # t]_vars
    /\ [](\A t \in Threads : ~(At(t, "readprompt") /\ p[Top(t).c] = t))

\* C36: once a Stop() that closed the listener has returned, every
\* connection the accept loop accepted is eventually registered and
\* disconnected, whatever the peers do, and the Wait() the main goroutine
\* calls after its Stop() eventually returns.
C36_StopClosesAll ==
    /\ \A t \in Threads :
          (ret[t].fn = "Stop" /\ ret[t].b)
              ~> (\A c \in 1..nconn : id[c] # 0 /\ ~connected[c])
    /\ (At(Main, "m_wait") /\ ret[Main].fn = "Stop") ~> hist.waitReturned

\* C37: onMessage is not invoked for a session for which onClosed has
\* been invoked.
C37_NoMessageAfterClosed ==
    [][\A t \in Threads :
          (InvokesCallback(t) /\ stk'[t][Depth(t) + 1].pc = "cb_message")
              => hist.closed[stk'[t][Depth(t) + 1].c] = 0]_vars

\* goroutine t runs a reader loop of session c and its loop frame is at
\* one of pcs
LoopAt(t, c, pcs) ==
    /\ stk[t] # <<>>
    /\ stk[t][1].c = c
    /\ stk[t][1].pc \in pcs

\* C38: listening and callbackRunning are never both true; listening is
\* true only while a reader loop goroutine of the session is outside the
\* message callback (in its loop, or ending), and callbackRunning only while
\* one is inside it (or leaving it).
C38_ReaderFlags ==
    \A c \in Conns :
        /\ ~(listening[c] /\ callbackRunning[c])
        /\ listening[c] =>
              \E t \in Threads : LoopAt(t, c, {"ls_got", "ls_send", "ls_enter", "ls_exit"})
        /\ callbackRunning[c] =>
              \E t \in Threads : LoopAt(t, c, {"ls_leave", "ls_exit"})

\* C39: on a connected session no prompt call waits on the hand-off
\* channel, holding the prompt lock, while the reader loop that would send
\* on the channel is inside a message callback waiting for the prompt lock:
\* such two goroutines wait on each other forever.
C39_NoPromptDeadlock ==
    \A c \in Conns :
        connected[c] =>
            ~ \E t, u \in Threads :
                  /\ At(t, "rp_recv") /\ Top(t).c = c /\ p[c] = t
                  /\ At(u, "readprompt") /\ Top(u).c = c
                  /\ LoopAt(u, c, {"ls_leave"})

\* goroutine r is in a readprompt on session c that receives from the
\* hand-off channel, or is about to (it found listening true and is sending
\* its prompt text)
Receiver(r, c) ==
    \E k \in 1..Depth(r) :
        /\ stk[r][k].c = c
        /\ stk[r][k].pc = "rp_recv" \/ (stk[r][k].pc = "rp_sent" /\ stk[r][k].b)

\* C40: a line the reader loop has read leaves it exactly once, to
\* onMessage or to one prompt caller (or the session has been closed); the
\* reader loop is never at the hand-off channel of a connected session with
\* no prompt caller to receive; and no prompt call returns leaving behind a
\* line that was read while it was active, which a later prompt would
\* receive.
C40_LinesDelivered ==
    /\ [](\A c \in Conns : \A t \in Threads :
            (LoopAt(t, c, {"ls_send"}) /\ ~pmsgClosed[c])
                => \E r \in Threads : Receiver(r, c))
    /\ [][\A c \in Conns : \A t \in Threads :
            /\ (LoopAt(t, c, {"ls_enter"}) /\ stk'[t] # stk[t]) =>
                  /\ InvokesCallback(t)
                  /\ stk'[t][1].str = <<>>
            /\ (LoopAt(t, c, {"ls_send"}) /\ Depth(t) = 1 /\ stk'[t] # stk[t]) =>
                  /\ stk'[t][1].str = <<>> \/ stk'[t][1].pc = "ls_exit"
                  /\ \/ pmsgClosed[c]
                     \/ \E r \in Threads :
                           /\ At(r, "rp_recv") /\ Top(r).c = c
                           /\ stk'[r][Depth(r)].pc = "rp_got"
                           /\ stk'[r][Depth(r)].str = stk[t][1].str
                           /\ \A q \in Threads \ {t, r} : stk'[q] = stk[q]
            /\ (PromptReturns(t) /\ Top(t).c = c /\ ~pmsgClosed[c]) =>
                  \A u \in Threads : ~LoopAt(u, c, {"ls_send"})]_vars

====
